---- MODULE Spec2Model ----
(***************************************************************************)
(* playlearn-mcp (src/src/server.ts): answer grading, placement sessions,  *)
(* the attempt log and the per-user level, as a state machine.             *)
(*                                                                         *)
(* Strings are sequences of characters; a character is a one-letter        *)
(* string, and a Hangul syllable is written as a romanised token "H_xx".   *)
(* A database table is a function from the keys of its rows to the rows,   *)
(* study_logs is the sequence of its rows in created_at order.             *)
(***************************************************************************)
EXTENDS Integers, Sequences, FiniteSets, TLC

VARIABLES
    users,                      \* table users: user_id -> row
    placement_sessions,         \* table placement_sessions: placement_id -> row
    study_logs,                 \* table study_logs, oldest row first
    review_items,               \* table review_items, oldest row first
    pendingByUser,              \* Map user_id -> Pending
    awaitingPromotionDecision,  \* Map user_id -> {mode, fromLevel}
    result,                     \* the last tool call and what it returned
    calls                       \* the tool calls in flight, step by step

vars == <<users, placement_sessions, study_logs, review_items,
          pendingByUser, awaitingPromotionDecision, result, calls>>

-----------------------------------------------------------------------------
(* Strings *)

DigitChars == <<"0", "1", "2", "3", "4", "5", "6", "7", "8", "9">>
LowerChars == <<"a", "b", "c", "d", "e", "f", "g", "h", "i", "j", "k", "l", "m",
                "n", "o", "p", "q", "r", "s", "t", "u", "v", "w", "x", "y", "z">>
UpperChars == <<"A", "B", "C", "D", "E", "F", "G", "H", "I", "J", "K", "L", "M",
                "N", "O", "P", "Q", "R", "S", "T", "U", "V", "W", "X", "Y", "Z">>

Range(s) == {s[i] : i \in DOMAIN s}

IsDigit(c) == c \in Range(DigitChars)
DigitValue(c) == (CHOOSE i \in DOMAIN DigitChars : DigitChars[i] = c) - 1

\* String.prototype.toUpperCase, character by character
UpperChar(c) ==
    IF c \in Range(LowerChars)
    THEN UpperChars[CHOOSE i \in DOMAIN LowerChars : LowerChars[i] = c]
    ELSE c
toUpperCase(s) == [i \in DOMAIN s |-> UpperChar(s[i])]
LowerChar(c) ==
    IF c \in Range(UpperChars)
    THEN LowerChars[CHOOSE i \in DOMAIN UpperChars : UpperChars[i] = c]
    ELSE c
toLowerCase(s) == [i \in DOMAIN s |-> LowerChar(s[i])]

\* String.prototype.trim
IsSpace(c) == c = " "
RECURSIVE trimStart(_)
trimStart(s) == IF s # <<>> /\ IsSpace(Head(s)) THEN trimStart(Tail(s)) ELSE s
RECURSIVE trimEnd(_)
trimEnd(s) ==
    IF s # <<>> /\ IsSpace(s[Len(s)]) THEN trimEnd(SubSeq(s, 1, Len(s) - 1)) ELSE s
trim(s) == trimEnd(trimStart(s))

\* /^\d+$/.test(s)
AllDigits(s) == Len(s) >= 1 /\ \A i \in DOMAIN s : IsDigit(s[i])

\* Number(s) of a digit string
RECURSIVE Number(_)
Number(s) ==
    IF s = <<>> THEN 0
    ELSE 10 * Number(SubSeq(s, 1, Len(s) - 1)) + DigitValue(s[Len(s)])

\* s.includes(t)
includes(s, t) ==
    \E i \in 0..(Len(s) - Len(t)) : SubSeq(s, i + 1, i + Len(t)) = t

\* s.replace(/\s+/g, "")
stripSpaces(s) == SelectSeq(s, LAMBDA c : ~IsSpace(c))

-----------------------------------------------------------------------------
(* gradeAnswer *)

NULL == -1      \* userPickIndex: null

alphaMap == [c \in {"A", "B", "C", "D", "E"} |->
                CASE c = "A" -> 0 [] c = "B" -> 1 [] c = "C" -> 2
                  [] c = "D" -> 3 [] c = "E" -> 4]

\* a correctAnswer that is null or undefined: String(correctAnswer ?? "") is ""
AbsentKey == <<"null">>

\* upper in alphaMap
InAlphaMap(s) == Len(s) = 1 /\ s[1] \in DOMAIN alphaMap

\* mutant: only a number picks a choice
userPickIndexOf_digitsOnly(raw) ==
    IF AllDigits(raw) /\ Number(raw) >= 1 THEN Number(raw) - 1 ELSE NULL

\* mutant: the first letter of a word picks a choice
userPickIndexOf_firstLetter(raw) ==
    LET upper == toUpperCase(raw)
        byDigits == IF AllDigits(raw) /\ Number(raw) >= 1 THEN Number(raw) - 1 ELSE NULL
    IN  IF Len(upper) >= 1 /\ upper[1] \in DOMAIN alphaMap
        THEN alphaMap[upper[1]] ELSE byDigits

\* the index the user's token picks: digits first, then a letter
userPickIndexOf(raw) ==
    LET upper == toUpperCase(raw)
        byDigits == IF AllDigits(raw) /\ Number(raw) >= 1 THEN Number(raw) - 1 ELSE NULL
    IN  IF InAlphaMap(upper) THEN alphaMap[upper[1]] ELSE byDigits

\* mutant: a pick beyond the choices is the empty text, not the raw answer
gradeAnswer_noFallback(choices, correctAnswer, userAnswer) ==
    LET raw == trim(userAnswer)
        userPickIndex == userPickIndexOf(raw)
        userPickValue ==
            IF userPickIndex = NULL THEN raw
            ELSE IF userPickIndex + 1 \in DOMAIN choices
            THEN trim(choices[userPickIndex + 1])
            ELSE <<>>
        ansStr == trim(IF correctAnswer = AbsentKey THEN <<>> ELSE correctAnswer)
        ansUpper == toUpperCase(ansStr)
        isCorrect ==
            IF AllDigits(ansStr) /\ userPickIndex # NULL
            THEN Number(ansStr) - 1 = userPickIndex
            ELSE IF Len(ansStr) = 1 /\ InAlphaMap(ansUpper) /\ userPickIndex # NULL
            THEN alphaMap[ansUpper[1]] = userPickIndex
            ELSE \/ toUpperCase(trim(userPickValue)) = ansUpper
                 \/ toUpperCase(trim(raw)) = ansUpper
    IN  [isCorrect |-> isCorrect, raw |-> raw, userPickIndex |-> userPickIndex,
         userPickValue |-> userPickValue, ansStr |-> ansStr]

gradeAnswer(choices, correctAnswer, userAnswer) ==
    LET raw == trim(userAnswer)
        userPickIndex == userPickIndexOf(raw)
        userPickValue ==
            IF userPickIndex # NULL /\ userPickIndex + 1 \in DOMAIN choices
            THEN trim(choices[userPickIndex + 1])
            ELSE raw
        ansStr == trim(IF correctAnswer = AbsentKey THEN <<>> ELSE correctAnswer)
        ansUpper == toUpperCase(ansStr)
        isCorrect ==
            IF AllDigits(ansStr) /\ userPickIndex # NULL
            THEN Number(ansStr) - 1 = userPickIndex
            ELSE IF Len(ansStr) = 1 /\ InAlphaMap(ansUpper) /\ userPickIndex # NULL
            THEN alphaMap[ansUpper[1]] = userPickIndex
            ELSE \/ toUpperCase(trim(userPickValue)) = ansUpper
                 \/ toUpperCase(trim(raw)) = ansUpper
    IN  [isCorrect |-> isCorrect, raw |-> raw, userPickIndex |-> userPickIndex,
         userPickValue |-> userPickValue, ansStr |-> ansStr]

-----------------------------------------------------------------------------
(* The questions table (read-only to the server) and the tool arguments *)

NONE == "none"              \* null / undefined / no row
UNDEFINED == "undefined"    \* an optional argument that is absent

ModeEnum == {"toeic", "grammar", "travel", "business", "vocab"}
SignalEnum == {"hard", "easy", "neutral"}

PLACEMENT_QUESTION_COUNT == 5
MIN_LEVEL == 1
MAX_LEVEL == 10
DEFAULT_LEVEL == 3
PROMOTION_STREAK == 5
PICK_LIMIT == 80

Animals == << <<"c", "a", "t">>, <<"d", "o", "g">>, <<"b", "i", "r", "d">> >>

Question(mode, level, is_active, answer) ==
    [mode |-> mode, level |-> level, is_active |-> is_active,
     choices |-> Animals, answer |-> answer]

\* a content of the questions table: toeic questions at every level but 2
\* and 9, one grammar question, one inactive row; keys in the three encodings
questions ==
    ("t1" :> Question("toeic", 1, TRUE, <<"2">>)) @@
    ("t3" :> Question("toeic", 3, TRUE, <<"2">>)) @@
    ("t4" :> Question("toeic", 4, TRUE, <<"B">>)) @@
    ("t5" :> Question("toeic", 5, TRUE, <<"d", "o", "g">>)) @@
    ("t6" :> Question("toeic", 6, TRUE, <<"2">>)) @@
    ("t7" :> Question("toeic", 7, TRUE, <<"b">>)) @@
    ("t8" :> Question("toeic", 8, TRUE, <<" ", "2", " ">>)) @@
    ("t10" :> Question("toeic", 10, TRUE, <<"D", "o", "g">>)) @@
    ("g1" :> Question("grammar", 1, TRUE, <<"1">>)) @@
    ("x3" :> Question("toeic", 3, FALSE, <<"A">>))

QIds == DOMAIN questions

\* the answers and the chat messages the specifications below submit
A_1 == <<"1">>
A_2 == <<"2">>
Answers == {A_1, A_2}

\* gradeAnswer on a question of the table, evaluated once for every answer
gradeTable ==
    [q \in QIds |-> [a \in Answers |->
        gradeAnswer(questions[q].choices, questions[q].answer, a)]]
gradeQuestion(q_id, user_answer) == gradeTable[q_id][user_answer]

-----------------------------------------------------------------------------
(* Helpers *)

resolveUserId(raw) == IF raw = UNDEFINED THEN "kakao_default" ELSE raw

\* mutant: the insert runs for a user that exists too and replaces the row
ensureUser_resets(us, user_id, mode) ==
    [u \in DOMAIN us \cup {user_id} |->
        IF u = user_id
        THEN [current_level |-> DEFAULT_LEVEL, exp_points |-> 0,
              placement_done |-> FALSE, last_mode |-> mode]
        ELSE us[u]]

\* the users table after ensureUser(user_id, mode)
ensureUser(us, user_id, mode) ==
    IF user_id \in DOMAIN us THEN us
    ELSE us @@ (user_id :> [current_level |-> DEFAULT_LEVEL, exp_points |-> 0,
                            placement_done |-> FALSE, last_mode |-> mode])

\* the last n elements of a sequence (order ... desc, limit n)
LastN(s, n) == IF Len(s) <= n THEN s ELSE SubSeq(s, Len(s) - n + 1, Len(s))

getRecentAttemptedQids(logs, user_id, mode, limit) ==
    LET rows == SelectSeq(logs, LAMBDA r :
                    /\ r.user_id = user_id
                    /\ r.event_type \in {"quiz_attempt", "placement_attempt"}
                    /\ r.mode = mode)
    IN  {r.q_id : r \in Range(LastN(rows, limit))}

\* the q_ids of the active rows of a questions table with the mode and level
activeQuestions(table, mode, level) ==
    {q \in DOMAIN table : /\ table[q].mode = mode
                          /\ table[q].level = level
                          /\ table[q].is_active}

\* the sets that are S without k of its elements
RECURSIVE dropRows(_, _)
dropRows(S, k) ==
    IF k = 0 THEN {S} ELSE UNION {dropRows(S \ {x}, k - 1) : x \in S}

\* .limit(n) of a select without an order: any n of the rows
limitRows(S, n) ==
    IF Cardinality(S) <= n THEN {S} ELSE dropRows(S, Cardinality(S) - n)

\* what is picked from the rows the select returned; {} stands for null
poolOf(list, excludeQids) ==
    LET filtered == list \ excludeQids
    IN  IF filtered # {} THEN filtered ELSE list

\* mutant: the select does not test is_active
pickFrom_inactive(table, mode, level, excludeQids) ==
    {q \in DOMAIN table : table[q].mode = mode /\ table[q].level = level}

\* the questions pickRandomQuestionAvoiding may return on a questions table
pickFrom(table, mode, level, excludeQids) ==
    UNION {poolOf(list, excludeQids) :
             list \in limitRows(activeQuestions(table, mode, level), PICK_LIMIT)}

\* the questions pickRandomQuestionAvoiding may return; {} stands for null
pickRandomQuestionAvoiding(mode, level, excludeQids) ==
    pickFrom(questions, mode, level, excludeQids)

\* mutant: the insert is lost
insertStudyLog_lost(logs, row) == logs

\* mutant: the new row replaces the newest one
insertStudyLog_overwrites(logs, row) ==
    IF logs = <<>> THEN <<row>> ELSE [logs EXCEPT ![Len(logs)] = row]

\* supabase.from("study_logs").insert(row)
insertStudyLog(logs, row) == Append(logs, row)

StudyLog(user_id, q_id, event_type, graded, signal) ==
    [user_id |-> user_id, q_id |-> q_id, event_type |-> event_type,
     mode |-> questions[q_id].mode, level |-> questions[q_id].level,
     is_correct |-> graded.isCorrect, user_answer |-> graded.userPickValue,
     signal |-> IF signal = UNDEFINED THEN "neutral" ELSE signal]

Min(a, b) == IF a <= b THEN a ELSE b
Max(a, b) == IF a >= b THEN a ELSE b

\* what a tool call returned, with the arguments it was called with
NoResult ==
    [op |-> "init", user_id |-> NONE, placement_id |-> NONE, q_id |-> NONE,
     branch |-> NONE, isError |-> FALSE, error |-> NONE,
     isCorrect |-> FALSE, level |-> 0, last_mode |-> NONE, next_q |-> NONE,
     done |-> FALSE]

Failed(call, error) == [call EXCEPT !.isError = TRUE, !.error = error]

-----------------------------------------------------------------------------
(* The zod schemas of the tool arguments *)

\* an identifier that z.string().uuid() rejects
MalformedId == "not-a-uuid"
isUuid(id) == id # MalformedId

\* user_id: z.string().min(1).optional()
ValidUserId(raw) == raw = UNDEFINED \/ raw # ""

\* user_answer: z.string().min(1)
ValidAnswer(user_answer) == Len(user_answer) >= 1

\* signal: z.enum(["hard", "easy", "neutral"]).optional()
ValidSignal(signal) == signal = UNDEFINED \/ signal \in SignalEnum

\* mutant: the level is not validated
ValidLevel_any(level) == TRUE

\* level: z.number().int().min(1).max(10)
ValidLevel(level) == level \in MIN_LEVEL..MAX_LEVEL

GetQuestionArgs(rawUserId, mode, level) ==
    ValidUserId(rawUserId) /\ mode \in ModeEnum /\ ValidLevel(level)

SubmitAnswerArgs(rawUserId, q_id, user_answer, signal) ==
    /\ ValidUserId(rawUserId) /\ isUuid(q_id)
    /\ ValidAnswer(user_answer) /\ ValidSignal(signal)

PlacementSubmitArgs(rawUserId, placement_id, q_id, user_answer, signal) ==
    /\ ValidUserId(rawUserId) /\ isUuid(placement_id) /\ isUuid(q_id)
    /\ ValidAnswer(user_answer) /\ ValidSignal(signal)

-----------------------------------------------------------------------------
(* Tool: placement_start *)

\* mutant: the new session counts the question it is created with
NewSession_counted(user_id, mode, level, q_id) ==
    [user_id |-> user_id, mode |-> mode, asked_count |-> 1, correct_count |-> 0,
     current_level |-> level, last_q_id |-> q_id, is_done |-> FALSE]

NewSession(user_id, mode, level, q_id) ==
    [user_id |-> user_id, mode |-> mode, asked_count |-> 0, correct_count |-> 0,
     current_level |-> level, last_q_id |-> q_id, is_done |-> FALSE]

\* placement_id is the identifier randomUUID() returns: one no session has
placement_start(rawUserId, mode, placement_id) ==
    /\ UNCHANGED calls
    /\ LET user_id == resolveUserId(rawUserId)
           users1 == ensureUser(users, user_id, mode)
           startLevel == users1[user_id].current_level
           recent == getRecentAttemptedQids(study_logs, user_id, mode, 80)
           pool == pickRandomQuestionAvoiding(mode, startLevel, recent)
           call == [NoResult EXCEPT !.op = "placement_start", !.user_id = user_id]
       IN  /\ users' = users1
           /\ UNCHANGED <<study_logs, review_items, pendingByUser, awaitingPromotionDecision>>
           /\ IF pool = {}
              THEN /\ result' = Failed(call, "Exhausted")
                   /\ UNCHANGED placement_sessions
              ELSE \E q \in pool :
                   /\ placement_id \notin DOMAIN placement_sessions
                   /\ placement_sessions' = placement_sessions @@
                           (placement_id :> NewSession(user_id, mode, startLevel, q))
                   /\ result' = [call EXCEPT !.placement_id = placement_id,
                                             !.level = startLevel, !.next_q = q]

-----------------------------------------------------------------------------
(* Tool: placement_submit *)

MaxLogs == 5    \* the rows study_logs may hold in a run of the model
MaxRows == 6    \* the rows study_logs may hold when calls run step by step

\* if (session.is_done) return the already-completed error
placementRefused(session) == session.is_done

\* mutant: a wrong answer demotes whatever the signal
placementLevel_demotes(level, isCorrect, signal) ==
    IF isCorrect THEN Min(MAX_LEVEL, level + 1) ELSE Max(MIN_LEVEL, level - 1)

\* the working level after an answer
placementLevel(level, isCorrect, signal) ==
    IF isCorrect THEN Min(MAX_LEVEL, level + 1)
    ELSE IF signal = "hard" THEN Max(MIN_LEVEL, level - 1)
    ELSE level

\* mutant: one answer too many
placementDone_late(asked) == asked > PLACEMENT_QUESTION_COUNT

\* const done = asked >= PLACEMENT_QUESTION_COUNT
placementDone(asked) == asked >= PLACEMENT_QUESTION_COUNT

\* mutant: the update leaves correct_count as it was
updatedSession_keepsCorrect(session, asked, correct, level, q_id, done) ==
    [session EXCEPT !.asked_count = asked,
                    !.current_level = level, !.last_q_id = q_id, !.is_done = done]

\* the session row after the update of step 5
updatedSession(session, asked, correct, level, q_id, done) ==
    [session EXCEPT !.asked_count = asked, !.correct_count = correct,
                    !.current_level = level, !.last_q_id = q_id, !.is_done = done]

\* the users table after step 6: the row of the calling user_id is updated
finishPlacement(us, user_id, level, mode) ==
    [us EXCEPT ![user_id] = [@ EXCEPT !.current_level = level,
                                      !.placement_done = TRUE,
                                      !.last_mode = mode]]

\* mutant: the working level is copied to the user after every answer
usersAfterSubmit_always(us, done, user_id, level, mode) ==
    finishPlacement(us, user_id, level, mode)

\* the users table after placement_submit: step 6 runs only if (done)
usersAfterSubmit(us, done, user_id, level, mode) ==
    IF done THEN finishPlacement(us, user_id, level, mode) ELSE us

placement_submit(rawUserId, placement_id, q_id, user_answer, signal) ==
    /\ UNCHANGED calls
    /\ LET user_id == resolveUserId(rawUserId)
           call == [NoResult EXCEPT !.op = "placement_submit", !.user_id = user_id,
                                    !.placement_id = placement_id, !.q_id = q_id]
           users1 == ensureUser(users, user_id, "toeic")
       IN  /\ UNCHANGED <<review_items, pendingByUser, awaitingPromotionDecision>>
           /\ IF ~PlacementSubmitArgs(rawUserId, placement_id, q_id, user_answer, signal)
              THEN /\ result' = Failed(call, "ValidationError")
                   /\ UNCHANGED <<users, placement_sessions, study_logs>>
              ELSE IF q_id \notin QIds
              THEN /\ result' = Failed(call, "NotFound")
                   /\ users' = users1
                   /\ UNCHANGED <<placement_sessions, study_logs>>
              ELSE
                LET Q == questions[q_id]
                    mode == Q.mode
                    sessions1 ==
                       IF placement_id \in DOMAIN placement_sessions
                       THEN placement_sessions
                       ELSE placement_sessions @@
                            (placement_id :> NewSession(user_id, mode, Q.level, q_id))
                    session == sessions1[placement_id]
                    graded == gradeQuestion(q_id, user_answer)
                    asked == session.asked_count + 1
                    correct == session.correct_count + (IF graded.isCorrect THEN 1 ELSE 0)
                    level == placementLevel(session.current_level, graded.isCorrect, signal)
                    done == placementDone(asked)
                    logs1 == insertStudyLog(study_logs,
                               StudyLog(user_id, q_id, "placement_attempt", graded, signal))
                    recent == getRecentAttemptedQids(logs1, user_id, mode, 120)
                    pool == pickRandomQuestionAvoiding(mode, level, recent)
                    graded_call == [call EXCEPT !.isCorrect = graded.isCorrect,
                                                !.level = level, !.done = done]
                IN  IF placementRefused(session)
                    THEN /\ result' = Failed(call, "AlreadyCompleted")
                         /\ users' = users1
                         /\ placement_sessions' = sessions1
                         /\ UNCHANGED study_logs
                    ELSE /\ Len(study_logs) < MaxLogs
                         /\ study_logs' = logs1
                         /\ placement_sessions' =
                               [sessions1 EXCEPT ![placement_id] =
                                   updatedSession(session, asked, correct, level, q_id, done)]
                         /\ users' = usersAfterSubmit(users1, done, user_id, level, mode)
                         /\ IF done
                            THEN result' = graded_call
                            ELSE IF pool = {}
                            THEN result' = Failed(graded_call, "Exhausted")
                            ELSE \E nextQ \in pool :
                                   result' = [graded_call EXCEPT !.next_q = nextQ]

-----------------------------------------------------------------------------
(* Tool: get_user_state *)

get_user_state(rawUserId) ==
    /\ UNCHANGED calls
    /\ LET user_id == resolveUserId(rawUserId)
           users1 == ensureUser(users, user_id, "toeic")
       IN  /\ users' = users1
           /\ result' = [NoResult EXCEPT !.op = "get_user_state", !.user_id = user_id,
                                         !.level = users1[user_id].current_level,
                                         !.last_mode = users1[user_id].last_mode,
                                         !.done = users1[user_id].placement_done]
           /\ UNCHANGED <<placement_sessions, study_logs, review_items,
                          pendingByUser, awaitingPromotionDecision>>

-----------------------------------------------------------------------------
(* Tool: get_question *)

Pending(q_id, mode) == [q_id |-> q_id, mode |-> mode, level |-> questions[q_id].level]

\* Map.prototype.set
MapSet(m, k, v) == [x \in DOMAIN m \cup {k} |-> IF x = k THEN v ELSE m[x]]

\* mutant: delete leaves the entry in the map
MapDelete_keeps(m, k) == m

\* Map.prototype.delete
MapDelete(m, k) == [x \in DOMAIN m \ {k} |-> m[x]]

get_question(rawUserId, mode, level) ==
    /\ UNCHANGED calls
    /\ LET user_id == resolveUserId(rawUserId)
           recent == getRecentAttemptedQids(study_logs, user_id, mode, 120)
           pool == pickRandomQuestionAvoiding(mode, level, recent)
           call == [NoResult EXCEPT !.op = "get_question", !.user_id = user_id,
                                    !.level = level]
       IN  IF ~GetQuestionArgs(rawUserId, mode, level)
           THEN /\ result' = Failed(call, "ValidationError")
                /\ UNCHANGED <<users, placement_sessions, study_logs, review_items,
                               pendingByUser, awaitingPromotionDecision>>
           ELSE /\ users' = ensureUser(users, user_id, mode)
                /\ UNCHANGED <<placement_sessions, study_logs, review_items,
                               awaitingPromotionDecision>>
                /\ IF pool = {}
                   THEN /\ result' = [call EXCEPT !.error = "Exhausted"]
                        /\ UNCHANGED pendingByUser
                   ELSE \E q \in pool :
                        /\ pendingByUser' = MapSet(pendingByUser, user_id, Pending(q, mode))
                        /\ result' = [call EXCEPT !.next_q = q]

-----------------------------------------------------------------------------
(* Tool: submit_answer *)

\* autoSaveMistake: a wrong answer is saved as a review item
autoSaveMistake(items, user_id, q_id, graded) ==
    IF graded.isCorrect THEN items
    ELSE Append(items, [user_id |-> user_id, item_type |-> "mistake", key |-> q_id])

getConsecutiveCorrectAtLevel(logs, user_id, mode, level, limit) ==
    LET rows == SelectSeq(logs, LAMBDA r :
                    /\ r.user_id = user_id
                    /\ r.event_type = "quiz_attempt"
                    /\ r.mode = mode)
        data == LastN(rows, limit)
        \* the newest rows that are at the level and correct, up to the first that is not
        Good(i) == data[i].level = level /\ data[i].is_correct
    IN  Cardinality({i \in DOMAIN data : \A j \in i..Len(data) : Good(j)})

\* if (streak >= 5) awaitingPromotionDecision.set(user_id, ...)
offerPromotion(awaiting, user_id, q_id, streak) ==
    IF streak >= PROMOTION_STREAK
    THEN MapSet(awaiting, user_id,
                [mode |-> questions[q_id].mode, fromLevel |-> questions[q_id].level])
    ELSE awaiting

submit_answer(rawUserId, q_id, user_answer, signal) ==
    /\ UNCHANGED calls
    /\ LET user_id == resolveUserId(rawUserId)
           call == [NoResult EXCEPT !.op = "submit_answer", !.user_id = user_id,
                                    !.q_id = q_id]
           users1 == ensureUser(users, user_id, "toeic")
       IN  /\ UNCHANGED <<placement_sessions, pendingByUser>>
           /\ IF ~SubmitAnswerArgs(rawUserId, q_id, user_answer, signal)
              THEN /\ result' = Failed(call, "ValidationError")
                   /\ UNCHANGED <<users, study_logs, review_items, awaitingPromotionDecision>>
              ELSE IF q_id \notin QIds
              THEN /\ result' = Failed(call, "NotFound")
                   /\ users' = users1
                   /\ UNCHANGED <<study_logs, review_items, awaitingPromotionDecision>>
              ELSE
                LET QQ == questions[q_id]
                    graded == gradeQuestion(q_id, user_answer)
                    logs1 == insertStudyLog(study_logs,
                               StudyLog(user_id, q_id, "quiz_attempt", graded, signal))
                    streak == getConsecutiveCorrectAtLevel(logs1, user_id, QQ.mode,
                                                           QQ.level, 30)
                IN  /\ Len(study_logs) < MaxLogs
                    /\ users' = users1
                    /\ study_logs' = logs1
                    /\ review_items' = autoSaveMistake(review_items, user_id, q_id, graded)
                    /\ awaitingPromotionDecision' =
                           offerPromotion(awaitingPromotionDecision, user_id, q_id, streak)
                    /\ result' = [call EXCEPT !.isCorrect = graded.isCorrect,
                                              !.level = QQ.level]

-----------------------------------------------------------------------------
(* Chat messages: the words the classifiers look for *)

W_toeic == <<"t", "o", "e", "i", "c">>
W_grammar == <<"g", "r", "a", "m", "m", "a", "r">>
W_travel == <<"t", "r", "a", "v", "e", "l">>
W_business == <<"b", "u", "s", "i", "n", "e", "s", "s">>
W_vocab == <<"v", "o", "c", "a", "b">>
W_easy == <<"e", "a", "s", "y">>
W_hard == <<"h", "a", "r", "d">>
W_gogo == <<"g", "o", "g", "o">>
K_toik == <<"H_to", "H_ik">>
K_munbeop == <<"H_mun", "H_beop">>
K_yeohaeng == <<"H_yeo", "H_haeng">>
K_bijeuniseu == <<"H_bi", "H_jeu", "H_ni", "H_seu">>
K_daneo == <<"H_dan", "H_eo">>
K_eohwi == <<"H_eo", "H_hwi">>
K_swiwo == <<"H_swi", "H_wo">>
K_swip == <<"H_swip">>
K_eoryeo == <<"H_eo", "H_ryeo">>
K_eoryeop == <<"H_eo", "H_ryeop">>
K_daeum == <<"H_da", "H_eum">>
K_gyesok == <<"H_gye", "H_sok">>
K_gg == <<"H_g", "H_g">>
K_geuman == <<"H_geu", "H_man">>
K_jongryo == <<"H_jong", "H_ryo">>
K_kkeut == <<"H_kkeut">>
K_geumanhallae == <<"H_geu", "H_man", "H_hal", "H_rae">>
K_yoyak == <<"H_yo", "H_yak">>
K_jeongri == <<"H_jeong", "H_ri">>
K_oneulgongbu == <<"H_o", "H_neul", "H_gong", "H_bu">>
K_odapnoteu == <<"H_o", "H_dap", "H_no", "H_teu">>
K_odap == <<"H_o", "H_dap">>
K_boyeo == <<"H_bo", "H_yeo">>
K_naenwa == <<"H_nae", "H_nwa">>
K_olryeo == <<"H_ol", "H_ryeo">>
K_olryeojwo == <<"H_ol", "H_ryeo", "H_jwo">>
K_daeumrebel == <<"H_da", "H_eum", "H_re", "H_bel">>
K_olrilkka == <<"H_ol", "H_ril", "H_kka">>
K_olryeoyo == <<"H_ol", "H_ryeo", "H_yo">>
K_yuji == <<"H_yu", "H_ji">>
K_geudaero == <<"H_geu", "H_dae", "H_ro">>
K_ani == <<"H_a", "H_ni">>
K_sijak == <<"H_si", "H_jak">>
K_yeongeogongbuhallae == <<"H_yeong", "H_eo", "H_gong", "H_bu", "H_hal", "H_rae">>

parseModeFromMessage(msg) ==
    LET m == toLowerCase(trim(msg))
    IN  IF includes(m, K_toik) \/ includes(m, W_toeic) THEN "toeic"
        ELSE IF includes(m, K_munbeop) \/ includes(m, W_grammar) THEN "grammar"
        ELSE IF includes(m, K_yeohaeng) \/ includes(m, W_travel) THEN "travel"
        ELSE IF includes(m, K_bijeuniseu) \/ includes(m, W_business) THEN "business"
        ELSE IF includes(m, K_daneo) \/ includes(m, K_eohwi) \/ includes(m, W_vocab)
        THEN "vocab"
        ELSE NONE

isEasySignal(msg) ==
    LET m == stripSpaces(msg)
    IN  includes(m, K_swiwo) \/ includes(m, K_swip) \/ m = W_easy

isHardSignal(msg) ==
    LET m == stripSpaces(msg)
    IN  includes(m, K_eoryeo) \/ includes(m, K_eoryeop) \/ m = W_hard

isNext(msg) ==
    LET m == stripSpaces(msg)
    IN  m = K_daeum \/ m = K_gyesok \/ m = W_gogo \/ includes(m, K_gg)

isStop(msg) ==
    LET m == stripSpaces(msg)
    IN  m = K_geuman \/ m = K_jongryo \/ m = K_kkeut \/ includes(m, K_geumanhallae)

isSummary(msg) ==
    LET m == stripSpaces(msg)
    IN  includes(m, K_yoyak) \/ includes(m, K_jeongri) \/ includes(m, K_oneulgongbu)

isMistakeNote(msg) ==
    LET m == stripSpaces(msg)
    IN  \/ includes(m, K_odapnoteu)
        \/ /\ includes(m, K_odap)
           /\ includes(m, K_jeongri) \/ includes(m, K_boyeo) \/ includes(m, K_naenwa)

\* /^[1-9]\d*$/.test(t) || /^[a-eA-E]$/.test(t)
isAnswerToken(msg) ==
    LET t == trim(msg)
    IN  \/ AllDigits(t) /\ t[1] # "0"
        \/ Len(t) = 1 /\ t[1] \in {"a", "b", "c", "d", "e", "A", "B", "C", "D", "E"}

isPromotionYes(msg) ==
    LET m == stripSpaces(msg)
    IN  \/ m = K_olryeo \/ m = K_olryeojwo \/ includes(m, K_daeumrebel)
        \/ includes(m, K_olrilkka) \/ includes(m, K_olryeoyo) \/ m = <<"y">>

isPromotionNo(msg) ==
    LET m == stripSpaces(msg)
    IN  m = K_yuji \/ includes(m, K_geudaero) \/ includes(m, K_ani) \/ m = <<"n">>

-----------------------------------------------------------------------------
(* Tool: handle_user_message *)

\* buildTodayMistakeNoteWithReview: the pending map after it; a run of the
\* model lies within one day, so every row of study_logs is of today.  The
\* result is the set of maps the random pick can lead to.
buildTodayMistakeNoteWithReview(pending, logs, user_id) ==
    LET wrongRows == SelectSeq(logs, LAMBDA r :
                        /\ r.user_id = user_id
                        /\ r.event_type = "quiz_attempt"
                        /\ r.is_correct = FALSE)
        first == wrongRows[1]
        recent == getRecentAttemptedQids(logs, user_id, first.mode, 120)
        pool == pickRandomQuestionAvoiding(first.mode, Max(1, first.level), recent)
    IN  IF wrongRows = <<>> THEN {pending}
        ELSE IF pool = {} THEN {pending}
        ELSE {MapSet(pending, user_id, Pending(q, questions[q].mode)) : q \in pool}

\* mutant: the level is not clamped
easyLevel_unclamped(currentLevel) == currentLevel + 1

\* mutant: easy is a one-shot, it raises the default level only
easyLevel_once(currentLevel) ==
    IF currentLevel = DEFAULT_LEVEL THEN currentLevel + 1 ELSE currentLevel

\* 5) the level after explicit difficulty feedback
easyLevel(currentLevel) == Min(MAX_LEVEL, currentLevel + 1)
hardLevel(currentLevel) == Max(MIN_LEVEL, currentLevel - 1)

\* 0) the level an accepted promotion sets
promotedLevel(promo) == Min(MAX_LEVEL, promo.fromLevel + 1)

\* the branch of the handler a message takes, in the order the handler tests
intentOf(msg, hasPromo) ==
    IF hasPromo /\ isPromotionYes(msg) THEN "promotion_yes"
    ELSE IF hasPromo /\ isPromotionNo(msg) THEN "promotion_no"
    ELSE IF isStop(msg) THEN "stop"
    ELSE IF isSummary(msg) THEN "summary"
    ELSE IF isMistakeNote(msg) THEN "mistake_note"
    ELSE IF parseModeFromMessage(msg) # NONE THEN "mode"
    ELSE IF isEasySignal(msg) THEN "easy"
    ELSE IF isHardSignal(msg) THEN "hard"
    ELSE IF isAnswerToken(msg) THEN "answer"
    ELSE IF msg = K_yeongeogongbuhallae THEN "ask_mode"
    ELSE IF isNext(msg) \/ msg = K_sijak THEN "next"
    ELSE "help"

ChatMessages ==
    {W_easy, W_hard, <<"y">>, <<"n">>, W_grammar, A_2, W_gogo, K_geuman, <<"h", "i">>}

\* intentOf and parseModeFromMessage, evaluated once for every message
intentTable ==
    [m \in ChatMessages |-> [hasPromo \in BOOLEAN |-> intentOf(trim(m), hasPromo)]]
modeTable == [m \in ChatMessages |-> parseModeFromMessage(trim(m))]


\* mutant: a topic switch also sends the user back to the lowest level
switchMode_restarts(us, user_id, mode) ==
    [us EXCEPT ![user_id] = [@ EXCEPT !.last_mode = mode, !.current_level = MIN_LEVEL]]

\* supabase.from("users").update({ last_mode: currentMode }).eq("user_id", user_id)
switchMode(us, user_id, mode) ==
    [us EXCEPT ![user_id] = [@ EXCEPT !.last_mode = mode]]

handle_user_message(rawUserId, message) ==
    /\ UNCHANGED calls
    /\ LET user_id == resolveUserId(rawUserId)
           call == [NoResult EXCEPT !.op = "handle_user_message", !.user_id = user_id]
           users1 == ensureUser(users, user_id, "toeic")
           currentLevel == users1[user_id].current_level
           currentMode == users1[user_id].last_mode
           hasPromo == user_id \in DOMAIN awaitingPromotionDecision
           promo == awaitingPromotionDecision[user_id]
           intent == intentTable[message][hasPromo]
           Reply(branch) == [call EXCEPT !.branch = branch]
       IN
       IF Len(message) < 1
       THEN /\ result' = Failed(call, "ValidationError")
            /\ UNCHANGED <<users, placement_sessions, study_logs, review_items,
                           pendingByUser, awaitingPromotionDecision>>
       ELSE IF intent = "promotion_yes"
       THEN LET newLevel == promotedLevel(promo)
                recent == getRecentAttemptedQids(study_logs, user_id, promo.mode, 150)
                pool == pickRandomQuestionAvoiding(promo.mode, newLevel, recent)
            IN  /\ users' = [users1 EXCEPT ![user_id] =
                               [@ EXCEPT !.current_level = newLevel, !.last_mode = promo.mode]]
                /\ awaitingPromotionDecision' = MapDelete(awaitingPromotionDecision, user_id)
                /\ UNCHANGED <<placement_sessions, study_logs, review_items>>
                /\ IF pool = {}
                   THEN /\ result' = [Reply(intent) EXCEPT !.level = newLevel]
                        /\ UNCHANGED pendingByUser
                   ELSE \E q \in pool :
                        /\ pendingByUser' = MapSet(pendingByUser, user_id, Pending(q, promo.mode))
                        /\ result' = [Reply(intent) EXCEPT !.level = newLevel, !.next_q = q]
       ELSE IF intent = "promotion_no"
       THEN /\ users' = users1
            /\ awaitingPromotionDecision' = MapDelete(awaitingPromotionDecision, user_id)
            /\ result' = [Reply(intent) EXCEPT !.level = promo.fromLevel]
            /\ UNCHANGED <<placement_sessions, study_logs, review_items, pendingByUser>>
       ELSE IF intent \in {"stop", "mistake_note"}
       THEN /\ users' = users1
            /\ pendingByUser' \in buildTodayMistakeNoteWithReview(pendingByUser, study_logs, user_id)
            /\ result' = Reply(intent)
            /\ UNCHANGED <<placement_sessions, study_logs, review_items,
                           awaitingPromotionDecision>>
       ELSE IF intent \in {"summary", "ask_mode", "help"}
       THEN /\ users' = users1
            /\ result' = Reply(intent)
            /\ UNCHANGED <<placement_sessions, study_logs, review_items,
                           pendingByUser, awaitingPromotionDecision>>
       ELSE IF intent = "mode"
       THEN /\ users' = switchMode(users1, user_id, modeTable[message])
            /\ result' = [Reply(intent) EXCEPT !.level = currentLevel]
            /\ UNCHANGED <<placement_sessions, study_logs, review_items,
                           pendingByUser, awaitingPromotionDecision>>
       ELSE IF intent = "easy"
       THEN /\ users' = [users1 EXCEPT ![user_id] =
                           [@ EXCEPT !.current_level = easyLevel(currentLevel)]]
            /\ result' = [Reply(intent) EXCEPT !.level = easyLevel(currentLevel)]
            /\ UNCHANGED <<placement_sessions, study_logs, review_items,
                           pendingByUser, awaitingPromotionDecision>>
       ELSE IF intent = "hard"
       THEN /\ users' = [users1 EXCEPT ![user_id] =
                           [@ EXCEPT !.current_level = hardLevel(currentLevel)]]
            /\ result' = [Reply(intent) EXCEPT !.level = hardLevel(currentLevel)]
            /\ UNCHANGED <<placement_sessions, study_logs, review_items,
                           pendingByUser, awaitingPromotionDecision>>
       ELSE IF intent = "answer"
       THEN IF user_id \notin DOMAIN pendingByUser
            THEN /\ users' = users1
                 /\ result' = Reply("no_pending")
                 /\ UNCHANGED <<placement_sessions, study_logs, review_items,
                                pendingByUser, awaitingPromotionDecision>>
            ELSE IF pendingByUser[user_id].q_id \notin QIds
            THEN /\ users' = users1
                 /\ pendingByUser' = MapDelete(pendingByUser, user_id)
                 /\ result' = Reply("pending_not_found")
                 /\ UNCHANGED <<placement_sessions, study_logs, review_items,
                                awaitingPromotionDecision>>
            ELSE LET q_id == pendingByUser[user_id].q_id
                     QQ == questions[q_id]
                     graded == gradeQuestion(q_id, trim(message))
                     logs1 == insertStudyLog(study_logs,
                                 StudyLog(user_id, q_id, "quiz_attempt", graded, "neutral"))
                     streak == getConsecutiveCorrectAtLevel(logs1, user_id, QQ.mode,
                                                            QQ.level, 30)
                 IN  /\ Len(study_logs) < MaxLogs
                     /\ users' = users1
                     /\ study_logs' = logs1
                     /\ review_items' = autoSaveMistake(review_items, user_id, q_id, graded)
                     /\ pendingByUser' = MapDelete(pendingByUser, user_id)
                     /\ awaitingPromotionDecision' =
                           offerPromotion(awaitingPromotionDecision, user_id, q_id, streak)
                     /\ result' = [Reply(intent) EXCEPT !.q_id = q_id,
                                                        !.isCorrect = graded.isCorrect,
                                                        !.level = QQ.level]
                     /\ UNCHANGED placement_sessions
       ELSE LET recent == getRecentAttemptedQids(study_logs, user_id, currentMode, 150)
                pool == pickRandomQuestionAvoiding(currentMode, currentLevel, recent)
            IN  /\ users' = users1
                /\ UNCHANGED <<placement_sessions, study_logs, review_items,
                               awaitingPromotionDecision>>
                /\ IF pool = {}
                   THEN /\ result' = Failed(Reply(intent), "Exhausted")
                        /\ UNCHANGED pendingByUser
                   ELSE \E q \in pool :
                        /\ pendingByUser' =
                               MapSet(pendingByUser, user_id, Pending(q, currentMode))
                        /\ result' = [Reply(intent) EXCEPT !.level = currentLevel,
                                                           !.next_q = q]

-----------------------------------------------------------------------------
(* The server after start-up: empty tables and maps *)

Init ==
    /\ users = << >>
    /\ placement_sessions = << >>
    /\ study_logs = << >>
    /\ review_items = << >>
    /\ pendingByUser = << >>
    /\ awaitingPromotionDecision = << >>
    /\ result = NoResult
    /\ calls = << >>

-----------------------------------------------------------------------------
(* SpecPlacement: two users and one assessment session they submit to *)

PlacementUsers == {"u1", "u2"}
PlacementAnswers == {A_1, A_2}
PlacementSignals == {"hard"}

StartPlacement == \E u \in PlacementUsers : placement_start(u, "toeic", "p1")

SubmitPlacement ==
    \E u \in PlacementUsers, q \in {"t3", "q0"}, a \in PlacementAnswers,
       s \in PlacementSignals : placement_submit(u, "p1", q, a, s)

NextPlacement == StartPlacement \/ SubmitPlacement

SpecPlacement == Init /\ [][NextPlacement]_vars

-----------------------------------------------------------------------------
(* Spec: one user, every tool that grades or changes a level *)

Start == placement_start("u1", "toeic", "p1")

Submit ==
    \E q \in {"t10", "q0"}, a \in {A_1, A_2} : placement_submit("u1", "p1", q, a, "hard")

Practice == \E q \in {"t10", "q0"} : submit_answer("u1", q, A_2, UNDEFINED)

Chat ==
    \E m \in {W_easy, W_hard, <<"y">>, <<"n">>, W_grammar} : handle_user_message("u1", m)

Next == Start \/ Submit \/ Practice \/ Chat

Spec == Init /\ [][Next]_vars

-----------------------------------------------------------------------------
(* SpecLevel: one session, answered with every verdict and every signal *)

MaxLevelSteps == 3  \* the answers a run of SpecLevel submits

LevelSignals == {UNDEFINED, "hard", "easy", "neutral"}

StartLevel == placement_start("u1", "toeic", "p1")

SubmitLevel ==
    \E q \in {"t10", "g1"}, a \in Answers, s \in LevelSignals :
        /\ Len(study_logs) < MaxLevelSteps
        /\ placement_submit("u1", "p1", q, a, s)

NextLevel == StartLevel \/ SubmitLevel

SpecLevel == Init /\ [][NextLevel]_vars

-----------------------------------------------------------------------------
(* SpecPractice: one user who tunes the level in chat and practises ad hoc *)

Tune == \E m \in {W_easy, W_hard} : handle_user_message("u1", m)

PracticeAtFive ==
    \E a \in Answers, s \in {UNDEFINED, "hard"} : submit_answer("u1", "t5", a, s)

NextPractice == Tune \/ PracticeAtFive

SpecPractice == Init /\ [][NextPractice]_vars

-----------------------------------------------------------------------------
(* SpecLog: one user; every operation that grades, and chat that does not *)

StartLog == placement_start("u1", "toeic", "p1")

SubmitLog ==
    \E q \in {"t3", "q0"}, a \in Answers : placement_submit("u1", "p1", q, a, UNDEFINED)

PracticeLog == \E q \in {"t3", "q0"}, a \in Answers : submit_answer("u1", q, a, UNDEFINED)

ChatLog == \E m \in {A_2, W_gogo, K_geuman, <<"h", "i">>} : handle_user_message("u1", m)

NextLog == StartLog \/ SubmitLog \/ PracticeLog \/ ChatLog

SpecLog == Init /\ [][NextLog]_vars

-----------------------------------------------------------------------------
(* What a step was, read from the call it leaves in result *)

\* the step was a placement_submit to session p
SubmitTo(p) == result'.op = "placement_submit" /\ result'.placement_id = p

\* the call graded the answer: it did not stop at an error before grading
Graded(r) == r.error \notin {"ValidationError", "NotFound", "AlreadyCompleted"}

LastLog(logs) == logs[Len(logs)]

-----------------------------------------------------------------------------
(* Claims on SpecPlacement *)

\* a start or submit of session p: what it does to the session, refusal
\* being the error the call must return if the session is finished
SessionStep(p, refusal) ==
    /\ (result'.op = "placement_start" /\ result'.placement_id = p)
          => /\ placement_sessions'[p].asked_count = 0
             /\ ~placement_sessions'[p].is_done
    /\ (SubmitTo(p) /\ p \in DOMAIN placement_sessions)
          => IF placement_sessions[p].is_done
             THEN /\ result'.isError /\ result'.error = refusal
                  /\ placement_sessions'[p] = placement_sessions[p]
             ELSE Graded(result')
                    => /\ placement_sessions'[p].asked_count =
                            placement_sessions[p].asked_count + 1
                       /\ placement_sessions'[p].is_done =
                            (placement_sessions'[p].asked_count = 5)

C2_RefusalChangesNothing ==
    [][\A p \in DOMAIN placement_sessions :
        (SubmitTo(p) /\ result'.q_id \in QIds /\ placement_sessions[p].is_done)
          => /\ result'.isError /\ result'.error = "AlreadyCompleted"
             /\ UNCHANGED <<users, placement_sessions, study_logs>>]_vars

\* C5: the submit that finishes a session writes the session's final level,
\* placement_done and the session's mode to the session's owner and changes
\* no other user's row.
C5_FinishWritesOwner ==
    [][\A p \in DOMAIN placement_sessions' :
        (SubmitTo(p) /\ Graded(result') /\ result'.done)
          => LET owner == placement_sessions'[p].user_id
             IN  /\ owner \in DOMAIN users'
                 /\ users'[owner].current_level = placement_sessions'[p].current_level
                 /\ users'[owner].placement_done
                 /\ users'[owner].last_mode = placement_sessions'[p].mode
                 /\ \A u \in DOMAIN users \ {owner} : users'[u] = users[u]
      ]_vars

\* C6: a placement_start or placement_submit that leaves its session
\* unfinished leaves the level and placement_done of the session's owner as
\* they were (as ensureUser creates them, for an owner the call creates).
C6_UnfinishedLeavesOwner ==
    [][\A p \in DOMAIN placement_sessions' :
        (/\ result'.op \in {"placement_start", "placement_submit"}
         /\ result'.placement_id = p
         /\ ~placement_sessions'[p].is_done)
          => LET owner == placement_sessions'[p].user_id
             IN  /\ owner \in DOMAIN users'
                 /\ users'[owner].current_level =
                        (IF owner \in DOMAIN users THEN users[owner].current_level
                         ELSE DEFAULT_LEVEL)
                 /\ users'[owner].placement_done =
                        (IF owner \in DOMAIN users THEN users[owner].placement_done
                         ELSE FALSE)
      ]_vars

\* C6 witness: four answers in, the working level differs from the owner's level
C6_Witness ==
    /\ result.op = "placement_submit"
    /\ ~result.isError
    /\ "p1" \in DOMAIN placement_sessions
    /\ placement_sessions["p1"].asked_count = 4
    /\ ~placement_sessions["p1"].is_done
    /\ placement_sessions["p1"].user_id = "u1"
    /\ placement_sessions["p1"].current_level = 7
    /\ users["u1"].current_level = 3
    /\ ~users["u1"].placement_done


\* C7: the submit that finishes a session with all 5 answers correct leaves
\* the session at min(10, s + 5), s being the level its owner has kept since
\* the start (C6), and that value is the owner's current_level afterwards.
C7_AllCorrectFinalLevel ==
    [][\A p \in DOMAIN placement_sessions :
        (/\ SubmitTo(p) /\ Graded(result') /\ result'.done
         /\ placement_sessions'[p].correct_count = PLACEMENT_QUESTION_COUNT)
          => LET owner == placement_sessions[p].user_id
                 s == users[owner].current_level
             IN  /\ placement_sessions'[p].current_level = Min(MAX_LEVEL, s + 5)
                 /\ users'[owner].current_level = Min(MAX_LEVEL, s + 5)
      ]_vars

-----------------------------------------------------------------------------
(* Claims on Spec *)

\* C3: the current_level of every user and of every session is in 1..10
C3_LevelsInRange ==
    /\ \A u \in DOMAIN users : users[u].current_level \in MIN_LEVEL..MAX_LEVEL
    /\ \A p \in DOMAIN placement_sessions :
            placement_sessions[p].current_level \in MIN_LEVEL..MAX_LEVEL

\* C3 witness: a promotion accepted at level 10 left the user at level 10
C3_Witness ==
    /\ result.op = "handle_user_message"
    /\ result.branch = "promotion_yes"
    /\ users["u1"].current_level = MAX_LEVEL
    /\ LastLog(study_logs).level = MAX_LEVEL

-----------------------------------------------------------------------------
(* Claims on SpecLevel *)

\* C4: a graded placement_submit sets the session's level from the level L
\* the session had (the question's level, for a session the call creates):
\* min(10, L + 1) if correct, max(1, L - 1) if incorrect with signal hard,
\* and L if incorrect with the signal absent, easy or neutral.
C4_PlacementLevelRule ==
    [][\A p \in DOMAIN placement_sessions' :
        (SubmitTo(p) /\ Graded(result'))
          => LET L == IF p \in DOMAIN placement_sessions
                      THEN placement_sessions[p].current_level
                      ELSE questions[result'.q_id].level
                 row == LastLog(study_logs')
                 L1 == placement_sessions'[p].current_level
             IN  /\ row.is_correct => L1 = Min(10, L + 1)
                 /\ (~row.is_correct /\ row.signal = "hard") => L1 = Max(1, L - 1)
                 /\ (~row.is_correct /\ row.signal # "hard") => L1 = L
                 /\ result'.level = L1
      ]_vars

\* C4 witness: a wrong answer with signal easy left the working level at 3
C4_Witness ==
    /\ result.op = "placement_submit"
    /\ Graded(result)
    /\ ~result.isCorrect
    /\ Len(study_logs) = 1
    /\ study_logs[1].signal = "easy"
    /\ placement_sessions["p1"].asked_count = 1
    /\ placement_sessions["p1"].current_level = DEFAULT_LEVEL

-----------------------------------------------------------------------------
(* Claims on SpecPractice *)

\* C8: a graded submit_answer moves the user's level by the grading-outcome
\* rule: up 1 (at most 10) if correct, down 1 (at least 1) if incorrect with
\* signal hard, unchanged if incorrect without it.
C8_PracticeUpdatesLevel ==
    [][(result'.op = "submit_answer" /\ Graded(result'))
          => LET u == result'.user_id
                 L == IF u \in DOMAIN users THEN users[u].current_level
                      ELSE DEFAULT_LEVEL
                 row == LastLog(study_logs')
                 signal == IF row.signal = "hard" THEN "hard" ELSE UNDEFINED
             IN  users'[u].current_level = placementLevel(L, row.is_correct, signal)
      ]_vars

-----------------------------------------------------------------------------
(* Claims on SpecLog *)

\* the step graded an answer: a placement_submit of a known question to a
\* session that is not finished, a submit_answer of a known question, or a
\* chat answer token for a pending question
GradingStep ==
    \/ /\ result'.op = "placement_submit"
       /\ result'.error # "ValidationError"
       /\ result'.q_id \in QIds
       /\ ~ (/\ result'.placement_id \in DOMAIN placement_sessions
             /\ placement_sessions[result'.placement_id].is_done)
    \/ /\ result'.op = "submit_answer"
       /\ result'.error # "ValidationError"
       /\ result'.q_id \in QIds
    \/ /\ result'.op = "handle_user_message"
       /\ result'.branch = "answer"
       /\ result'.user_id \in DOMAIN pendingByUser

\* C9: a step that grades an answer appends exactly one row to study_logs,
\* a placement_attempt for placement_submit and a quiz_attempt otherwise,
\* for the user, question and verdict of the call; any other step leaves
\* study_logs as it was.
C9_OneRowPerGradedAnswer ==
    [][IF GradingStep
       THEN /\ Len(study_logs') = Len(study_logs) + 1
            /\ SubSeq(study_logs', 1, Len(study_logs)) = study_logs
            /\ LET row == LastLog(study_logs')
               IN  /\ row.event_type = (IF result'.op = "placement_submit"
                                       THEN "placement_attempt" ELSE "quiz_attempt")
                   /\ row.user_id = result'.user_id
                   /\ row.q_id = result'.q_id
                   /\ row.is_correct = result'.isCorrect
       ELSE study_logs' = study_logs
      ]_vars

\* C9 witness: a placement answer, then an ad hoc answer, then a chat answer
C9_Witness ==
    /\ result.op = "handle_user_message"
    /\ result.branch = "answer"
    /\ Len(study_logs) = 3
    /\ study_logs[1].event_type = "placement_attempt"
    /\ study_logs[2].event_type = "quiz_attempt"
    /\ study_logs[3].event_type = "quiz_attempt"
    /\ study_logs[3].is_correct

\* C10: in every step the study_logs of before is a prefix of the study_logs
\* of after.
C10_AppendOnly ==
    [][/\ Len(study_logs') >= Len(study_logs)
       /\ SubSeq(study_logs', 1, Len(study_logs)) = study_logs]_vars

\* C10 witness: rows of both kinds are in the log, in the order they were
\* written, when a chat message that grades nothing is handled
C10_Witness ==
    /\ Len(study_logs) = 4
    /\ study_logs[1].event_type = "quiz_attempt"
    /\ study_logs[1].is_correct
    /\ study_logs[2].event_type = "placement_attempt"
    /\ ~study_logs[4].is_correct
    /\ result.op = "handle_user_message"
    /\ result.branch = "stop"

-----------------------------------------------------------------------------
(* Claims C16, C17 *)

C17_StartCreatesSession ==
    [][(result'.op = "placement_start")
          => IF result'.isError THEN UNCHANGED placement_sessions
             ELSE LET p == result'.placement_id
                      u == result'.user_id
                      L == IF u \in DOMAIN users THEN users[u].current_level
                           ELSE DEFAULT_LEVEL
                      session == placement_sessions'[p]
                      q == result'.next_q
                  IN  /\ p \notin DOMAIN placement_sessions
                      /\ session.user_id = u
                      /\ session.asked_count = 0 /\ session.correct_count = 0
                      /\ ~session.is_done
                      /\ session.current_level = L
                      /\ session.last_q_id = q
                      /\ q \in QIds
                      /\ questions[q].is_active
                      /\ questions[q].mode = session.mode
                      /\ questions[q].level = L
      ]_vars

\* C17 witness: a user who said "easy" once starts an assessment at level 4
C17_Witness ==
    /\ result.op = "placement_start"
    /\ ~result.isError
    /\ result.level = 4
    /\ result.next_q = "t4"
    /\ placement_sessions["p1"].current_level = 4
    /\ placement_sessions["p1"].asked_count = 0

-----------------------------------------------------------------------------
(* SpecPick: pickRandomQuestionAvoiding on a question bank of BankSize active
   toeic questions of level 3, one inactive one and one grammar question *)

BankSize == 81  \* the active toeic level-3 questions of the bank

QuestionBank ==
    [q \in 1..(BankSize + 2) |->
        IF q <= BankSize THEN Question("toeic", 3, TRUE, <<"2">>)
        ELSE IF q = BankSize + 1 THEN Question("toeic", 3, FALSE, <<"2">>)
        ELSE Question("grammar", 3, TRUE, <<"2">>)]

\* a call of pickRandomQuestionAvoiding: the arguments and what it may return
Pick ==
    \E mode \in {"toeic", "grammar", "vocab"}, level \in {3, 4}, k \in 0..(BankSize + 2) :
        /\ result' = [mode |-> mode, exclude |-> 1..k,
                      returned |-> pickFrom(QuestionBank, mode, level, 1..k)]
                     @@ [NoResult EXCEPT !.op = "pickRandomQuestionAvoiding",
                                         !.level = level]
        /\ UNCHANGED <<users, placement_sessions, study_logs, review_items,
                       pendingByUser, awaitingPromotionDecision, calls>>

SpecPick == Init /\ [][Pick]_vars

\* C18: pickRandomQuestionAvoiding returns null exactly when the bank has no
\* active question of the mode and level; what it returns is an active
\* question of the mode and level, and is an excluded one only when every
\* active question of the mode and level is excluded.
C18_PickContract ==
    (result.op = "pickRandomQuestionAvoiding")
      => LET candidates == {q \in DOMAIN QuestionBank :
                               /\ QuestionBank[q].mode = result.mode
                               /\ QuestionBank[q].level = result.level
                               /\ QuestionBank[q].is_active}
         IN  /\ (result.returned = {}) <=> (candidates = {})
             /\ \A q \in result.returned :
                    /\ q \in candidates
                    /\ (q \in result.exclude) => (candidates \subseteq result.exclude)

-----------------------------------------------------------------------------
(* SpecValidate: well-formed and malformed calls of the three tools *)

ValidateUsers == {"u1", "u2"}

AskQuestion == get_question("u1", "toeic", 3)

AnswerQuestion == submit_answer("u1", "t3", A_1, UNDEFINED)

AnswerPlacement == placement_submit("u1", "p1", "t3", A_2, "hard")

\* calls with an empty answer, a level outside 1..10, a malformed identifier
\* or an empty user_id
MalformedCall ==
    \E u \in ValidateUsers :
        \/ \E level \in {0, 11} : get_question(u, "toeic", level)
        \/ get_question("", "toeic", 3)
        \/ submit_answer(u, "t3", <<>>, UNDEFINED)
        \/ submit_answer(u, MalformedId, A_1, UNDEFINED)
        \/ placement_submit(u, "p1", "t3", <<>>, UNDEFINED)
        \/ placement_submit(u, MalformedId, "t3", A_1, UNDEFINED)
        \/ placement_submit(u, "p1", MalformedId, A_1, UNDEFINED)

NextValidate == AskQuestion \/ AnswerQuestion \/ AnswerPlacement \/ MalformedCall

SpecValidate == Init /\ [][NextValidate]_vars

\* C19: a get_question, submit_answer or placement_submit call with an empty
\* answer, a level outside 1..10, a malformed identifier or an empty user_id
\* returns the validation error and changes no table and no map: no user
\* record, session or attempt record is created and no level changes.
C19_MalformedChangesNothing ==
    [][MalformedCall
         => /\ result'.isError /\ result'.error = "ValidationError"
            /\ UNCHANGED <<users, placement_sessions, study_logs, review_items,
                           pendingByUser, awaitingPromotionDecision>>]_vars

\* C19 witness: a malformed placement_submit of a user who has no record,
\* after an answer of another user was logged
C19_Witness ==
    /\ result.op = "placement_submit"
    /\ result.error = "ValidationError"
    /\ result.user_id = "u2"
    /\ "u2" \notin DOMAIN users
    /\ "p1" \notin DOMAIN placement_sessions
    /\ Len(study_logs) = 1

-----------------------------------------------------------------------------
(* Claim C20, on Spec *)

\* C20: an answer graded by submit_answer or in chat leaves the user's
\* current_level as it was; a promotion offer it records is for the user's
\* level (to be raised by one); an accepted promotion raises the user's
\* current_level by one, at most to 10.
C20_PromotionIsOffered ==
    [][LET u == result'.user_id
           L == IF u \in DOMAIN users THEN users[u].current_level ELSE DEFAULT_LEVEL
           grades == \/ result'.op = "submit_answer" /\ Graded(result')
                     \/ result'.op = "handle_user_message" /\ result'.branch = "answer"
       IN  /\ grades
              => /\ users'[u].current_level = L
                 /\ (u \in DOMAIN awaitingPromotionDecision' /\
                     u \notin DOMAIN awaitingPromotionDecision)
                       => awaitingPromotionDecision'[u].fromLevel = L
           /\ (result'.op = "handle_user_message" /\ result'.branch = "promotion_yes")
              => users'[u].current_level = Min(MAX_LEVEL, L + 1)
      ]_vars

-----------------------------------------------------------------------------
(* placement_submit step by step: a call in flight runs from one await of a
   supabase request to the next, and the steps of different calls interleave.
   ok tells whether the write of the step succeeds.  ensureUser and the
   select-or-insert of the session are taken as one step each. *)

CallIds == {"c1", "c2"}

InFlight(c) == c \in DOMAIN calls /\ calls[c].pc # "returned"

\* the call record when the handler is entered
NewCall(user_id, placement_id, q_id, user_answer, signal) ==
    [op |-> "placement_submit", pc |-> "session", user_id |-> user_id,
     placement_id |-> placement_id, q_id |-> q_id, user_answer |-> user_answer,
     signal |-> signal, session |-> NONE, isCorrect |-> FALSE,
     asked |-> 0, correct |-> 0, level |-> 0, done |-> FALSE]

\* mutant: the user's level is written first
afterStep_levelFirst(pc, done) ==
    IF pc = "session" THEN (IF done THEN "finish" ELSE "log")
    ELSE IF pc = "finish" THEN "log"
    ELSE IF pc = "log" THEN "update"
    ELSE "next"

\* the order of the steps after the session is read: 4) log, 5) session
\* update, 6) user update if (done), else 7) next question
afterStep(pc, done) ==
    IF pc = "session" THEN "log"
    ELSE IF pc = "log" THEN "update"
    ELSE IF pc = "update" THEN (IF done THEN "finish" ELSE "next")
    ELSE "returned"

\* the handler returns: the call leaves the flight and result is what it returned
Return(c, r) ==
    /\ calls' = [calls EXCEPT ![c].pc = "returned"]
    /\ result' = r

CallResult(call) ==
    [NoResult EXCEPT !.op = call.op, !.user_id = call.user_id,
                     !.placement_id = call.placement_id, !.q_id = call.q_id]

GradedResult(call) ==
    [CallResult(call) EXCEPT !.isCorrect = call.isCorrect, !.level = call.level,
                             !.done = call.done]

\* parse, ensureUser, 1) question select
submit_enter(c, rawUserId, placement_id, q_id, user_answer, signal) ==
    LET user_id == resolveUserId(rawUserId)
        call == NewCall(user_id, placement_id, q_id, user_answer, signal)
    IN  /\ ~InFlight(c)
        /\ UNCHANGED <<placement_sessions, study_logs, review_items,
                       pendingByUser, awaitingPromotionDecision>>
        /\ IF ~PlacementSubmitArgs(rawUserId, placement_id, q_id, user_answer, signal)
           THEN /\ calls' = MapSet(calls, c, [call EXCEPT !.pc = "returned"])
                /\ result' = Failed(CallResult(call), "ValidationError")
                /\ UNCHANGED users
           ELSE IF q_id \notin QIds
           THEN /\ calls' = MapSet(calls, c, [call EXCEPT !.pc = "returned"])
                /\ result' = Failed(CallResult(call), "NotFound")
                /\ users' = ensureUser(users, user_id, "toeic")
           ELSE /\ calls' = MapSet(calls, c, call)
                /\ users' = ensureUser(users, user_id, "toeic")
                /\ UNCHANGED result

\* 2) session select (insert if there is none), is_done check, 3) grading
submit_session(c) ==
    LET call == calls[c]
        Q == questions[call.q_id]
        sessions1 ==
            IF call.placement_id \in DOMAIN placement_sessions
            THEN placement_sessions
            ELSE placement_sessions @@
                 (call.placement_id :> NewSession(call.user_id, Q.mode, Q.level, call.q_id))
        session == sessions1[call.placement_id]
        graded == gradeQuestion(call.q_id, call.user_answer)
        asked == session.asked_count + 1
    IN  /\ InFlight(c) /\ call.pc = "session"
        /\ placement_sessions' = sessions1
        /\ UNCHANGED <<users, study_logs, review_items, pendingByUser,
                       awaitingPromotionDecision>>
        /\ IF placementRefused(session)
           THEN Return(c, Failed(CallResult(call), "AlreadyCompleted"))
           ELSE /\ calls' = [calls EXCEPT ![c] =
                      [call EXCEPT
                         !.pc = afterStep("session", placementDone(asked)),
                         !.session = session,
                         !.isCorrect = graded.isCorrect,
                         !.asked = asked,
                         !.correct = session.correct_count +
                                       (IF graded.isCorrect THEN 1 ELSE 0),
                         !.level = placementLevel(session.current_level,
                                                  graded.isCorrect, call.signal),
                         !.done = placementDone(asked)]]
                /\ UNCHANGED result

\* a write that fails: the handler throws and its catch returns the error
WriteFails(c) ==
    /\ Return(c, Failed(CallResult(calls[c]), "WriteFailed"))
    /\ UNCHANGED <<users, placement_sessions, study_logs, review_items,
                   pendingByUser, awaitingPromotionDecision>>

\* 4) study_logs insert
submit_log(c, ok) ==
    LET call == calls[c]
        graded == gradeQuestion(call.q_id, call.user_answer)
    IN  /\ InFlight(c) /\ call.pc = "log"
        /\ IF ~ok THEN WriteFails(c)
           ELSE /\ Len(study_logs) < MaxRows
                /\ study_logs' = insertStudyLog(study_logs,
                      StudyLog(call.user_id, call.q_id, "placement_attempt",
                               graded, call.signal))
                /\ calls' = [calls EXCEPT ![c].pc = afterStep("log", call.done)]
                /\ UNCHANGED <<users, placement_sessions, review_items, pendingByUser,
                               awaitingPromotionDecision, result>>

\* 5) placement_sessions update
submit_update(c, ok) ==
    LET call == calls[c]
    IN  /\ InFlight(c) /\ call.pc = "update"
        /\ IF ~ok THEN WriteFails(c)
           ELSE /\ placement_sessions' =
                      [placement_sessions EXCEPT ![call.placement_id] =
                          updatedSession(@, call.asked, call.correct, call.level,
                                         call.q_id, call.done)]
                /\ calls' = [calls EXCEPT ![c].pc = afterStep("update", call.done)]
                /\ UNCHANGED <<users, study_logs, review_items, pendingByUser,
                               awaitingPromotionDecision, result>>

\* 6) users update of the finishing submit, and its return
submit_finish(c, ok) ==
    LET call == calls[c]
    IN  /\ InFlight(c) /\ call.pc = "finish"
        /\ IF ~ok THEN WriteFails(c)
           ELSE /\ users' = finishPlacement(users, call.user_id, call.level,
                                            questions[call.q_id].mode)
                /\ IF afterStep("finish", call.done) = "returned"
                   THEN Return(c, GradedResult(call))
                   ELSE /\ calls' = [calls EXCEPT ![c].pc = afterStep("finish", call.done)]
                        /\ UNCHANGED result
                /\ UNCHANGED <<placement_sessions, study_logs, review_items,
                               pendingByUser, awaitingPromotionDecision>>

\* 7) the next question, and the return
submit_next(c) ==
    LET call == calls[c]
        mode == questions[call.q_id].mode
        recent == getRecentAttemptedQids(study_logs, call.user_id, mode, 120)
        pool == pickRandomQuestionAvoiding(mode, call.level, recent)
    IN  /\ InFlight(c) /\ call.pc = "next"
        /\ UNCHANGED <<users, placement_sessions, study_logs, review_items,
                       pendingByUser, awaitingPromotionDecision>>
        /\ IF pool = {}
           THEN Return(c, Failed(GradedResult(call), "Exhausted"))
           ELSE \E nextQ \in pool :
                    Return(c, [GradedResult(call) EXCEPT !.next_q = nextQ])

\* one step of the call c in flight
submit_step(c, ok) ==
    \/ submit_session(c) \/ submit_log(c, ok) \/ submit_update(c, ok)
    \/ submit_finish(c, ok) \/ submit_next(c)

-----------------------------------------------------------------------------
(* SpecConcurrent: two placement_submit calls of one user for one session,
   their steps interleaved, every write succeeding *)

StartSession == placement_start("u1", "toeic", "p1")

Enter == \E c \in CallIds : submit_enter(c, "u1", "p1", "t3", A_2, UNDEFINED)

Step == \E c \in CallIds : submit_step(c, TRUE)

NextConcurrent == StartSession \/ Enter \/ Step

SpecConcurrent == Init /\ [][NextConcurrent]_vars

\* no call is in flight
Quiescent == \A c \in DOMAIN calls : calls[c].pc = "returned"

\* C11: when no submit is in flight, the session's asked_count is the number
\* of answers graded and logged against it, and that number is at most 5.
C11_NoLostSubmit ==
    (Quiescent /\ "p1" \in DOMAIN placement_sessions)
      => /\ placement_sessions["p1"].asked_count = Len(study_logs)
         /\ Len(study_logs) <= PLACEMENT_QUESTION_COUNT

-----------------------------------------------------------------------------
(* SpecFailure: placement_submit calls of one user, one at a time, in which
   any write can fail *)

EnterAlone ==
    \E a \in Answers : submit_enter("c1", "u1", "p1", "t3", a, "hard")

StepOrFail == \E ok \in BOOLEAN : submit_step("c1", ok)

NextFailure == EnterAlone \/ StepOrFail

SpecFailure == Init /\ [][NextFailure]_vars

\* C13: when no call is in flight, every attempt row belongs to an answer
\* the session counted, and a finished session has its level and
\* placement_done in the record of its owner.
C13_AllOrNothing ==
    (Quiescent /\ "p1" \in DOMAIN placement_sessions)
      => LET session == placement_sessions["p1"]
         IN  /\ session.asked_count = Len(study_logs)
             /\ session.is_done
                  => /\ users[session.user_id].placement_done
                     /\ users[session.user_id].current_level = session.current_level

\* C14: a placement_submit whose study_logs insert fails still returns the
\* verdict of the answer, not an error.
C14_VerdictDespiteLogFailure ==
    [][\A c \in DOMAIN calls :
        (calls[c].pc = "log" /\ calls'[c].pc = "returned")
          => /\ ~result'.isError
             /\ result'.isCorrect = calls[c].isCorrect]_vars

\* the call c takes the step
Stepped(c) == c \in DOMAIN calls /\ calls'[c] # calls[c]

-----------------------------------------------------------------------------
(* The difficulty feedback of handle_user_message step by step: the select
   of the user's level and the update of it are two requests, and the steps
   of different calls interleave *)

\* parse, ensureUser, the select of current_level and last_mode, and the
\* tests of the message down to 5); the call goes on only for easy or hard
feedback_read(c, rawUserId, message) ==
    LET user_id == resolveUserId(rawUserId)
        users1 == ensureUser(users, user_id, "toeic")
        hasPromo == user_id \in DOMAIN awaitingPromotionDecision
        intent == intentTable[message][hasPromo]
    IN  /\ ~InFlight(c)
        /\ intent \in {"easy", "hard"}
        /\ users' = users1
        /\ calls' = MapSet(calls, c,
                [op |-> "handle_user_message", pc |-> "write", user_id |-> user_id,
                 intent |-> intent,
                 currentLevel |-> users1[user_id].current_level])
        /\ UNCHANGED <<placement_sessions, study_logs, review_items, pendingByUser,
                       awaitingPromotionDecision, result>>

\* 5) the update of current_level from the level that was read, and the return
feedback_write(c, ok) ==
    LET call == calls[c]
        newLevel == IF call.intent = "easy" THEN easyLevel(call.currentLevel)
                    ELSE hardLevel(call.currentLevel)
        reply == [NoResult EXCEPT !.op = call.op, !.user_id = call.user_id,
                                  !.branch = call.intent]
    IN  /\ InFlight(c) /\ call.op = "handle_user_message" /\ call.pc = "write"
        /\ UNCHANGED <<placement_sessions, study_logs, review_items, pendingByUser,
                       awaitingPromotionDecision>>
        /\ IF ~ok
           THEN /\ Return(c, Failed(reply, "WriteFailed"))
                /\ UNCHANGED users
           ELSE /\ users' = [users EXCEPT ![call.user_id].current_level = newLevel]
                /\ Return(c, [reply EXCEPT !.level = newLevel])

-----------------------------------------------------------------------------
(* SpecFeedback: up to three easy / hard messages of one user, each handled
   by a call of its own, their steps interleaved *)

FeedbackCalls == {"c1", "c2", "c3"}

Register == get_user_state("u1")

ReadLevel ==
    \E c \in FeedbackCalls, m \in {W_easy, W_hard} :
        c \notin DOMAIN calls /\ feedback_read(c, "u1", m)

WriteLevel == \E c \in FeedbackCalls : feedback_write(c, TRUE)

NextFeedback == Register \/ ReadLevel \/ WriteLevel

SpecFeedback == Init /\ [][NextFeedback]_vars

\* +1 for every easy and -1 for every hard among the calls of a set
RECURSIVE LevelChange(_)
LevelChange(S) ==
    IF S = {} THEN 0
    ELSE LET c == CHOOSE x \in S : TRUE
         IN  (IF calls[c].intent = "easy" THEN 1 ELSE -1) + LevelChange(S \ {c})

\* C12: when every feedback call has returned, the user's level is the
\* level 3 the user started with, plus one for each easy and minus one for
\* each hard (not below 1): two easy give 5, an easy and a hard give 3.
C12_NoLostFeedback ==
    (Quiescent /\ "u1" \in DOMAIN users)
      => users["u1"].current_level =
            Max(MIN_LEVEL, DEFAULT_LEVEL + LevelChange(DOMAIN calls))


-----------------------------------------------------------------------------
(* Claim C21, on Spec *)

\* the streak of a user at the level and topic of an offer, as the server
\* computes it from the attempt log
StreakOf(logs, u, promo) ==
    getConsecutiveCorrectAtLevel(logs, u, promo.mode, promo.fromLevel, 30)

\* C21: declining a pending promotion offer leaves the user's level
\* unchanged, clears the offer and resets the streak to 0, so that the next
\* correct answer at that level cannot raise a new offer.
C21_DeclineResetsStreak ==
    [][(result'.op = "handle_user_message" /\ result'.branch = "promotion_no")
         => LET u == result'.user_id
                promo == awaitingPromotionDecision[u]
            IN  /\ users'[u].current_level = users[u].current_level
                /\ u \notin DOMAIN awaitingPromotionDecision'
                /\ StreakOf(study_logs', u, promo) = 0
      ]_vars

-----------------------------------------------------------------------------
(* Claim C22, on Spec *)

\* C22: while a promotion offer is pending for a user (it was pending before
\* the step and still is after it), the step does not change the user's
\* current_level: neither easy/hard feedback nor the end of an assessment.
C22_PendingOfferFreezesLevel ==
    [][\A u \in DOMAIN awaitingPromotionDecision \cap DOMAIN awaitingPromotionDecision' :
          users'[u].current_level = users[u].current_level]_vars

-----------------------------------------------------------------------------
(* Claim C23, on Spec *)

\* the practice answers of a user, oldest first
PracticeRows(logs, u) ==
    SelectSeq(logs, LAMBDA r : r.user_id = u /\ r.event_type = "quiz_attempt")

\* the step before this one changed the user's level by explicit feedback
\* (a level the clamp did not stop is a level that changed)
LevelJustChanged ==
    /\ result.op = "handle_user_message"
    /\ \/ result.branch = "easy" /\ result.level < MAX_LEVEL
       \/ result.branch = "hard" /\ result.level > MIN_LEVEL

\* C23: the streak that raises a promotion offer counts consecutive correct
\* practice answers at the user's current level: when a step raises an
\* offer, the user's last 5 practice answers are correct and were given at
\* the user's current level, and the level was not changed just before (the
\* streak is 0 right after a change of level).
C23_StreakAtCurrentLevel ==
    [][LET u == result'.user_id
           last == LastN(PracticeRows(study_logs', u), PROMOTION_STREAK)
       IN  (u \in DOMAIN awaitingPromotionDecision' /\
            u \notin DOMAIN awaitingPromotionDecision)
             => /\ Len(last) = PROMOTION_STREAK
                /\ \A i \in DOMAIN last :
                      last[i].is_correct /\ last[i].level = users'[u].current_level
                /\ ~LevelJustChanged
      ]_vars

-----------------------------------------------------------------------------
(* SpecChat: one user who chats but sends no answer: feedback, topic, next
   question, stop, yes and no without an offer, small talk *)

ChatAny == \E m \in ChatMessages \ {A_2} : handle_user_message("u1", m)

SpecChat == Init /\ [][ChatAny]_vars

-----------------------------------------------------------------------------
(* Claim C24, on SpecChat *)

\* C24: a chat message handled as easy feedback sets the user's level L to
\* min(10, L + 1), one handled as hard feedback to max(1, L - 1), and any
\* other message but the acceptance of a promotion leaves it unchanged; an
\* easy right after an easy raises the level the first one reported again
\* (up to 10), so k easy messages in a row from L end at min(10, L + k).
C24_FeedbackAdjustsLevel ==
    [][(result'.op = "handle_user_message" /\ result'.error # "ValidationError")
         => LET u == result'.user_id
                L == IF u \in DOMAIN users THEN users[u].current_level ELSE DEFAULT_LEVEL
                L1 == users'[u].current_level
                again == /\ result.op = "handle_user_message"
                         /\ result.user_id = u
                         /\ result.branch = "easy"
            IN  /\ result'.branch = "easy" => L1 = Min(MAX_LEVEL, L + 1)
                /\ result'.branch = "hard" => L1 = Max(MIN_LEVEL, L - 1)
                /\ result'.branch \notin {"easy", "hard", "promotion_yes"} => L1 = L
                /\ (again /\ result'.branch = "easy")
                      => L1 = Min(MAX_LEVEL, result.level + 1)
      ]_vars

\* seven easy messages and more took the user from level 3 to level 10,
\* where the last one was clamped
C24_Witness ==
    /\ result.op = "handle_user_message"
    /\ result.branch = "easy"
    /\ result.level = MAX_LEVEL
    /\ users["u1"].current_level = MAX_LEVEL

-----------------------------------------------------------------------------
(* SpecState: the state of two users is asked for, between the operations
   that write it: feedback and a change of topic in chat, and an assessment *)

NextState ==
    \/ \E u \in {"u1", UNDEFINED} : get_user_state(u)
    \/ \E m \in {W_easy, W_hard, W_grammar} : handle_user_message("u1", m)
    \/ placement_start("u1", "toeic", "p1")
    \/ placement_submit("u1", "p1", "t3", A_2, UNDEFINED)

SpecState == Init /\ [][NextState]_vars

-----------------------------------------------------------------------------
(* Claim C25, on SpecState *)

\* C25: a get_user_state call for a user who exists changes no stored state,
\* and a call that follows a get_user_state call for the same user directly
\* (also the call that created the user) returns the same level, topic and
\* placement_done.
C25_GetUserStateIdempotent ==
    [][result'.op = "get_user_state"
         => LET u == result'.user_id
            IN  /\ u \in DOMAIN users
                   => UNCHANGED <<users, placement_sessions, study_logs, review_items,
                                  pendingByUser, awaitingPromotionDecision>>
                /\ (result.op = "get_user_state" /\ result.user_id = u)
                   => /\ result'.level = result.level
                      /\ result'.last_mode = result.last_mode
                      /\ result'.done = result.done
                /\ result'.level = users'[u].current_level
                /\ result'.last_mode = users'[u].last_mode
                /\ result'.done = users'[u].placement_done
      ]_vars

\* the state returned is of a user whose assessment is finished and whose
\* level and topic are not the defaults any more
C25_Witness ==
    /\ result.op = "get_user_state"
    /\ result.user_id = "u1"
    /\ result.done
    /\ result.level # DEFAULT_LEVEL
    /\ result.last_mode = "grammar"

-----------------------------------------------------------------------------
(* get_user_state step by step: ensureUser is a select and, if the select
   found no row, an insert, each a request of its own; then the select of
   the state.  The repository declares no key on users.user_id, so an insert
   for a user_id that has a row by then either is refused by the store or
   stores a second row: stored chooses.  users holds the row a select by
   user_id finds first; a call records whether its insert stored a row. *)

\* the rows of the users table with the user_id
UserRows(cs, user_id) ==
    Cardinality({c \in DOMAIN cs : cs[c].user_id = user_id /\ cs[c].inserted})

\* parse, and the select of ensureUser
state_enter(c, rawUserId) ==
    LET user_id == resolveUserId(rawUserId)
    IN  /\ c \notin DOMAIN calls
        /\ calls' = MapSet(calls, c,
                [op |-> "get_user_state", user_id |-> user_id, inserted |-> FALSE,
                 pc |-> IF user_id \in DOMAIN users THEN "read" ELSE "insert"])
        /\ UNCHANGED <<users, placement_sessions, study_logs, review_items,
                       pendingByUser, awaitingPromotionDecision, result>>

\* the insert of ensureUser, sent because the select had found no row
state_insert(c, stored) ==
    LET call == calls[c]
        reply == [NoResult EXCEPT !.op = call.op, !.user_id = call.user_id]
    IN  /\ InFlight(c) /\ call.op = "get_user_state" /\ call.pc = "insert"
        /\ UNCHANGED <<placement_sessions, study_logs, review_items,
                       pendingByUser, awaitingPromotionDecision>>
        /\ IF call.user_id \notin DOMAIN users
           THEN /\ users' = ensureUser(users, call.user_id, "toeic")
                /\ calls' = [calls EXCEPT ![c].pc = "read", ![c].inserted = TRUE]
                /\ UNCHANGED result
           ELSE IF stored
           THEN /\ calls' = [calls EXCEPT ![c].pc = "read", ![c].inserted = TRUE]
                /\ UNCHANGED <<users, result>>
           ELSE /\ Return(c, Failed(reply, "InsertFailed"))
                /\ UNCHANGED users

\* the select of the state (maybeSingle: an error if it finds two rows) and
\* the return
state_read(c) ==
    LET call == calls[c]
        u == users[call.user_id]
        reply == [NoResult EXCEPT !.op = call.op, !.user_id = call.user_id]
    IN  /\ InFlight(c) /\ call.op = "get_user_state" /\ call.pc = "read"
        /\ UNCHANGED <<users, placement_sessions, study_logs, review_items,
                       pendingByUser, awaitingPromotionDecision>>
        /\ IF UserRows(calls, call.user_id) > 1
           THEN Return(c, Failed(reply, "MultipleRows"))
           ELSE Return(c, [reply EXCEPT !.level = u.current_level,
                                        !.last_mode = u.last_mode,
                                        !.done = u.placement_done])

-----------------------------------------------------------------------------
(* SpecEnsure: three get_user_state calls for two new users, their steps
   interleaved, and feedback of a user who exists *)

NextEnsure ==
    \/ \E c \in {"c1", "c2", "c3"} :
          \/ \E u \in {"u1", "u2"} : state_enter(c, u)
          \/ \E stored \in BOOLEAN : state_insert(c, stored)
          \/ state_read(c)
    \/ \E m \in {W_easy, W_hard} :
          "u1" \in DOMAIN users /\ handle_user_message("u1", m)

SpecEnsure == Init /\ [][NextEnsure]_vars

-----------------------------------------------------------------------------
(* Claim C26, on SpecEnsure *)

-----------------------------------------------------------------------------
(* SpecGrade: gradeAnswer on choice lists, keys and answers of every shape:
   no choices, three, five with padded text, choices that are numbers; keys
   and answers that are numbers, letters of either case, words, padded,
   empty, out of range, and a key that is absent *)

\* the arguments of a call of gradeAnswer
InitGrade ==
    /\ users = << >> /\ placement_sessions = << >> /\ study_logs = << >>
    /\ review_items = << >> /\ pendingByUser = << >>
    /\ awaitingPromotionDecision = << >> /\ calls = << >>
    /\ \E choices \in {<<>>, Animals, <<<<"0">>, <<"1">>>>,
                       <<<<" ", "d", "o", "g", " ">>, <<"x">>, <<"y">>, <<"z">>, <<"w">>>>},
          key \in {AbsentKey, <<>>,
                  <<"1">>, <<"2">>, <<"3">>, <<"4">>, <<"5">>, <<"A">>,
                  <<"B">>, <<"C">>, <<"D">>, <<"E">>, <<"a">>, <<"b">>,
                  <<"c">>, <<"d">>, <<"e">>, <<"0">>, <<"1", "2">>,
                  <<"d", "o", "g">>, <<"D", "o", "g">>, <<" ", "2", " ">>,
                  <<"F">>},
          answer \in {<<"1">>, <<"2">>, <<"3">>, <<"4">>, <<"5">>, <<"A">>,
                     <<"B">>, <<"C">>, <<"D">>, <<"E">>, <<"a">>, <<"b">>,
                     <<"c">>, <<"d">>, <<"e">>, <<>>, <<" ">>, <<"0">>,
                     <<"6">>, <<"1", "2">>, <<"1", "0">>, <<"0", "1", "2">>, <<"f">>, <<"d", "o", "g">>,
                     <<" ", "D", "O", "G", " ">>, <<"x">>, <<" ", "2">>} :
           result = [choices |-> choices, key |-> key, answer |-> answer,
                     graded |-> NONE]
                    @@ [NoResult EXCEPT !.op = "args"]

\* the call: what gradeAnswer returns for the arguments
Grade ==
    /\ result.op = "args"
    /\ result' = [result EXCEPT
                    !.op = "gradeAnswer",
                    !.graded = gradeAnswer(result.choices, result.key, result.answer)]
    /\ UNCHANGED <<users, placement_sessions, study_logs, review_items,
                   pendingByUser, awaitingPromotionDecision, calls>>

SpecGrade == InitGrade /\ [][Grade]_vars

-----------------------------------------------------------------------------
(* Claims C27 to C30, on SpecGrade *)

\* the ways to write choice i (0..4): the number i + 1, the i-th letter in
\* upper or in lower case
Encodings(i) == {<<DigitChars[i + 2]>>, <<UpperChars[i + 1]>>, <<LowerChars[i + 1]>>}

\* C27: an answer that writes choice i (0..4) as the number i + 1 or as the
\* i-th letter of either case, graded against a key that writes the same
\* choice in any of these ways, is correct, whatever the choices.
C27_SameChoiceIsCorrect ==
    (result.op = "gradeAnswer")
      => \A i \in 0..4 :
            (result.answer \in Encodings(i) /\ result.key \in Encodings(i))
               => result.graded.isCorrect

\* key A, answer 1, no choices: graded correct across the encodings
C27_Witness ==
    /\ result.op = "gradeAnswer"
    /\ result.key = <<"A">>
    /\ result.answer = <<"1">>
    /\ result.choices = <<>>
    /\ result.graded.isCorrect
    /\ result.graded.userPickIndex = 0

\* the text comparison of gradeAnswer: the canonical user choice or the
\* trimmed answer equals the trimmed key, ignoring case
TextMatch(g) ==
    \/ toUpperCase(g.userPickValue) = toUpperCase(g.ansStr)
    \/ toUpperCase(g.raw) = toUpperCase(g.ansStr)

\* C28: if the answer resolves to an index and the key is ordinal (digits
\* that denote an integer >= 1, the rule of the answer), the verdict is
\* whether the key's number minus 1 is the index; else if the answer
\* resolves to an index and the key is one letter A-E, whether the letter's
\* index is the index; else it is the text comparison.
C28_VerdictPrecedence ==
    (result.op = "gradeAnswer")
      => LET g == result.graded
             resolved == g.userPickIndex # NULL
             ordinalKey == AllDigits(g.ansStr) /\ Number(g.ansStr) >= 1
             letterKey == InAlphaMap(toUpperCase(g.ansStr))
         IN  g.isCorrect <=>
               IF resolved /\ ordinalKey THEN Number(g.ansStr) - 1 = g.userPickIndex
               ELSE IF resolved /\ letterKey
               THEN alphaMap[toUpperCase(g.ansStr)[1]] = g.userPickIndex
               ELSE TextMatch(g)

\* the trimmed answer is neither all digits nor one letter A-E of either case
IsFreeText(raw) == ~AllDigits(raw) /\ ~InAlphaMap(toUpperCase(raw))

\* C29: an answer that, trimmed, is neither all digits nor one letter A-E is
\* graded by text only: it is correct exactly if it equals the trimmed key
\* ignoring case, whatever the shape of the key and whatever the choices;
\* it resolves to no index and is its own canonical choice.
C29_FreeTextByTextOnly ==
    (result.op = "gradeAnswer" /\ IsFreeText(trim(result.answer)))
      => LET key == IF result.key = AbsentKey THEN <<>> ELSE result.key
         IN  /\ result.graded.isCorrect
                  <=> toUpperCase(trim(result.answer)) = toUpperCase(trim(key))
             /\ result.graded.userPickIndex = NULL
             /\ result.graded.userPickValue = trim(result.answer)

\* the padded answer DOG is correct against the key Dog, by text
C29_Witness ==
    /\ result.op = "gradeAnswer"
    /\ result.answer = <<" ", "D", "O", "G", " ">>
    /\ result.key = <<"D", "o", "g">>
    /\ result.choices = Animals
    /\ result.graded.isCorrect
    /\ result.graded.userPickIndex = NULL

\* C30: gradeAnswer returns a verdict for every choice list, the empty one
\* included, every key, an absent one included, and every answer.  If the
\* answer resolves to an index within the choices, the canonical user choice
\* is the trimmed text of that choice (key 2, choices cat, dog, bird, answer
\* 2: correct, canonical choice dog); if it resolves to none or to one
\* beyond the choices, it is the trimmed answer.
C30_TotalWithCanonicalChoice ==
    (result.op = "gradeAnswer")
      => LET g == result.graded
             within == g.userPickIndex # NULL /\ g.userPickIndex < Len(result.choices)
         IN  /\ g.isCorrect \in BOOLEAN
             /\ g.userPickIndex \in {NULL} \cup Nat
             /\ g.raw = trim(result.answer)
             /\ within => g.userPickValue = trim(result.choices[g.userPickIndex + 1])
             /\ ~within => g.userPickValue = g.raw
             /\ (result.choices = Animals /\ result.key = <<"2">> /\ result.answer = <<"2">>)
                   => g.isCorrect /\ g.userPickValue = <<"d", "o", "g">>

\* answer 5 picks index 4, beyond the three choices: the canonical choice is
\* the answer itself and the verdict against the key 5 is correct
C30_Witness ==
    /\ result.op = "gradeAnswer"
    /\ result.choices = Animals
    /\ result.answer = <<"5">>
    /\ result.key = <<"5">>
    /\ result.graded.userPickIndex = 4
    /\ result.graded.userPickValue = <<"5">>
    /\ result.graded.isCorrect

\* C31: an answer of two or more digits that denotes n >= 1 is an ordinal:
\* gradeAnswer resolves it to index n - 1 (12 to 11) and compares it as an
\* index, so it is correct against the ordinal key n and against no letter
\* key, and the chat entry point takes the same token as an answer.
C31_MultiDigitIsOrdinal ==
    LET raw == trim(result.answer)
        g == result.graded
    IN  (result.op = "gradeAnswer" /\ AllDigits(raw) /\ Len(raw) >= 2 /\ Number(raw) >= 1)
          => /\ g.userPickIndex = Number(raw) - 1
             /\ AllDigits(g.ansStr) => (g.isCorrect <=> Number(g.ansStr) = Number(raw))
             /\ InAlphaMap(toUpperCase(g.ansStr)) => ~g.isCorrect
             /\ \A hasPromo \in BOOLEAN : intentOf(raw, hasPromo) = "answer"

-----------------------------------------------------------------------------
(* Claims on the session row: counters, last_q_id, the next question *)

\* C32: in a sequential run every session satisfies 0 <= correct_count <=
\* asked_count <= 5 and is_done = (asked_count >= 5); asked_count never
\* decreases; a submit that is graded raises asked_count by exactly one and
\* correct_count by one when the answer was graded correct, by zero otherwise
\* (a session the submit itself creates counts from zero).
C32_SessionCounters ==
    [][\A p \in DOMAIN placement_sessions' :
        LET s1 == placement_sessions'[p]
            had == p \in DOMAIN placement_sessions
            asked0 == IF had THEN placement_sessions[p].asked_count ELSE 0
            correct0 == IF had THEN placement_sessions[p].correct_count ELSE 0
        IN  /\ 0 <= s1.correct_count
            /\ s1.correct_count <= s1.asked_count
            /\ s1.asked_count <= PLACEMENT_QUESTION_COUNT
            /\ s1.is_done = (s1.asked_count >= PLACEMENT_QUESTION_COUNT)
            /\ s1.asked_count >= asked0
            /\ (SubmitTo(p) /\ Graded(result'))
                  => /\ s1.asked_count = asked0 + 1
                     /\ s1.correct_count =
                           correct0 + (IF result'.isCorrect THEN 1 ELSE 0)]_vars

\* C32 witness: a fifth graded submit finished a session that holds both
\* correct and wrong answers
C32_Witness ==
    /\ result.op = "placement_submit" /\ Graded(result) /\ result.done
    /\ "p1" \in DOMAIN placement_sessions
    /\ placement_sessions["p1"].asked_count = 5
    /\ placement_sessions["p1"].correct_count = 3
    /\ placement_sessions["p1"].is_done

\* C33: a session's last_q_id is the question most recently issued in it:
\* after placement_start the first question, and after every non-final
\* placement_submit the question the call returned as the next one.
C33_LastQIsIssued ==
    [][\A p \in DOMAIN placement_sessions' :
        LET started == result'.op = "placement_start" /\ result'.placement_id = p
            answered == SubmitTo(p) /\ Graded(result') /\ ~result'.done
        IN  ((started \/ answered) /\ ~result'.isError)
               => placement_sessions'[p].last_q_id = result'.next_q]_vars

-----------------------------------------------------------------------------
(* SpecIssued: one session whose owner answers questions of either topic *)

NextIssued ==
    \/ placement_start("u1", "toeic", "p1")
    \/ \E q \in {"t3", "g1"}, a \in {A_1, A_2} :
          placement_submit("u1", "p1", q, a, UNDEFINED)

SpecIssued == Init /\ [][NextIssued]_vars

\* C34: the next question a non-final placement_submit returns is an active
\* question of the session's topic at the updated working level; it is one
\* not yet answered in the session whenever such a question exists, and when
\* every active question of that topic and level was answered the call still
\* issues one of them rather than failing.  (Every placement attempt of
\* SpecIssued belongs to session p1.)
C34_NextQuestion ==
    [][(SubmitTo("p1") /\ Graded(result') /\ ~result'.done)
        => LET s1 == placement_sessions'["p1"]
               n == result'.next_q
               answered == {study_logs'[i].q_id : i \in
                              {j \in DOMAIN study_logs' :
                                 study_logs'[j].event_type = "placement_attempt"}}
               active == activeQuestions(questions, s1.mode, s1.current_level)
           IN  /\ active # {} => ~result'.isError
               /\ ~result'.isError
                    => /\ n \in active
                       /\ (active \ answered # {}) => n \notin answered]_vars

-----------------------------------------------------------------------------
(* SpecMode: one user in chat: next, answer, promotion accept, easy, topic switch *)

NextMode ==
    \E m \in {W_gogo, A_2, <<"y">>, W_easy, W_grammar} : handle_user_message("u1", m)

SpecMode == Init /\ [][NextMode]_vars

\* C35: a topic switch in chat changes only the caller's last_mode: every
\* existing user keeps current_level and placement_done, other users' rows
\* are untouched, and study_logs, the pending questions, the pending
\* promotion offers, the sessions and the saved mistakes are as before.
C35_ModeSwitchOnlyLastMode ==
    [][(result'.op = "handle_user_message" /\ result'.branch = "mode")
        => /\ study_logs' = study_logs
           /\ pendingByUser' = pendingByUser
           /\ awaitingPromotionDecision' = awaitingPromotionDecision
           /\ placement_sessions' = placement_sessions
           /\ review_items' = review_items
           /\ \A u \in DOMAIN users :
                 /\ u \in DOMAIN users'
                 /\ users'[u].current_level = users[u].current_level
                 /\ users'[u].placement_done = users[u].placement_done
                 /\ users'[u] = [users[u] EXCEPT !.last_mode = users'[u].last_mode]
                 /\ u # result'.user_id => users'[u] = users[u]]_vars

\* C35 witness: the user switched to grammar while a question and a
\* promotion offer were pending, at a level easy feedback had raised
C35_Witness ==
    /\ result.op = "handle_user_message" /\ result.branch = "mode"
    /\ users["u1"].last_mode = "grammar"
    /\ users["u1"].current_level = 5
    /\ "u1" \in DOMAIN pendingByUser
    /\ "u1" \in DOMAIN awaitingPromotionDecision
    /\ Len(study_logs) = MaxLogs

-----------------------------------------------------------------------------
(* Claims on what a placement_submit may change in a session *)

\* C36: a placement_submit whose result is an error leaves the session's
\* asked_count, correct_count and working level as they were before the
\* call; in particular a non-final submit that finds no active question at
\* the updated working level returns an error and advances nothing.
C36_ErrorLeavesSession ==
    [][\A p \in DOMAIN placement_sessions :
        (SubmitTo(p) /\ result'.isError)
           => /\ placement_sessions'[p].asked_count = placement_sessions[p].asked_count
              /\ placement_sessions'[p].correct_count = placement_sessions[p].correct_count
              /\ placement_sessions'[p].current_level = placement_sessions[p].current_level]_vars

\* C37: a placement_submit whose q_id is not the session's last_q_id, or
\* whose user is not the session's user_id, leaves the session's
\* asked_count, correct_count and working level unchanged.
C37_OnlyIssuedQuestionAndOwner ==
    [][\A p \in DOMAIN placement_sessions :
        (/\ SubmitTo(p)
         /\ \/ result'.q_id # placement_sessions[p].last_q_id
            \/ result'.user_id # placement_sessions[p].user_id)
           => /\ placement_sessions'[p].asked_count = placement_sessions[p].asked_count
              /\ placement_sessions'[p].correct_count = placement_sessions[p].correct_count
              /\ placement_sessions'[p].current_level = placement_sessions[p].current_level]_vars

-----------------------------------------------------------------------------
(* SpecAccept: easy/hard feedback, ad hoc answers at two levels, accept *)

NextAccept ==
    \/ \E m \in {W_easy, W_hard, <<"y">>} : handle_user_message("u1", m)
    \/ \E q \in {"t3", "t5"} : submit_answer("u1", q, A_2, UNDEFINED)

SpecAccept == Init /\ [][NextAccept]_vars

\* C38: accepting a pending promotion offer never lowers the level: after
\* the accept message the user's current_level is at least the
\* current_level stored just before it.
C38_AcceptNeverLowers ==
    [][(/\ result'.op = "handle_user_message"
        /\ result'.branch = "promotion_yes"
        /\ result'.user_id \in DOMAIN users)
         => users'[result'.user_id].current_level
               >= users[result'.user_id].current_level]_vars

-----------------------------------------------------------------------------
(* Claims on the pending question of the chat flow *)

\* a chat message of user u was handled
ChatBy(u) == result'.op = "handle_user_message" /\ result'.user_id = u

\* C39: in chat a pending question is graded at most once.  A message that
\* is graded appends one attempt row, for the pending question, and clears
\* the user's pending entry; a chat message of a user with no pending entry
\* appends no row; and a user gets a pending entry, or another one, only
\* from a step that issues a question (next, get_question, promotion accept,
\* the mistake-note review).
C39_PendingGradedOnce ==
    [][\A u \in DOMAIN users' \cup DOMAIN pendingByUser' :
        /\ (ChatBy(u) /\ result'.branch = "answer")
              => /\ u \in DOMAIN pendingByUser
                 /\ u \notin DOMAIN pendingByUser'
                 /\ Len(study_logs') = Len(study_logs) + 1
                 /\ LastLog(study_logs').q_id = pendingByUser[u].q_id
                 /\ LastLog(study_logs').user_id = u
        /\ (ChatBy(u) /\ u \notin DOMAIN pendingByUser) => study_logs' = study_logs
        /\ (/\ u \in DOMAIN pendingByUser'
            /\ u \in DOMAIN pendingByUser => pendingByUser'[u] # pendingByUser[u])
              => \/ result'.op = "get_question"
                 \/ /\ ChatBy(u)
                    /\ result'.branch \in {"next", "promotion_yes", "stop",
                                           "mistake_note"}]_vars

\* C39 witness: a second answer token, sent after the graded one, found no
\* pending question and wrote nothing
C39_Witness ==
    /\ result.op = "handle_user_message" /\ result.branch = "no_pending"
    /\ study_logs # <<>>
    /\ LastLog(study_logs).event_type = "quiz_attempt"
    /\ "u1" \notin DOMAIN pendingByUser

=============================================================================
